---------------------------- MODULE Spec2Model ----------------------------
(***************************************************************************)
(* ai_developer: the ReAct agent runner (core/re_act_agent.py) and the     *)
(* permission engine (permission/permission_manager.py).                   *)
(*                                                                         *)
(* Text is modelled as a sequence of one-character strings, so that        *)
(* strip/split, substring and glob matching are computed as the code       *)
(* computes them.  A permission rule is a sequence of lexemes: the tool    *)
(* name is one lexeme, every other character is a lexeme of its own.       *)
(***************************************************************************)
EXTENDS Integers, Sequences, FiniteSets, TLC

(***************************************************************************)
(* Bounds                                                                  *)
(***************************************************************************)
MaxTurns == 1
MaxRuns == 1
MaxTasks == 2
MaxQueue == 1
MaxPending == 1

\* concurrent user requests on the thread
MaxRequests == 2

\* graph executions that may be started on the thread
MaxExecutions == 2

\* items put on the input queue by its concurrent callers
MaxItems == 3

\* length of the tool list of a sub-agent descriptor
MaxToolList == 2

\* the number of publish calls
MaxEvents == 2

\* the largest iteration count at which a turn may still suspend for a permission
MaxIterations == 5

\* recursion_limit of the graph configuration, scaled down from 1000
RecursionLimit == 4

\* the last value of the clock
MaxTime == 2

\* length of the list given to a TodoWriteTool call
MaxTodos == 2

\* DEFAULT_CONFIG.max_todos
max_todos == 100

\* the task_node_i nodes added to the main graph, scaled down from 20
TaskNodes == 2

\* the task_node_i nodes given an edge to reason, scaled down from 10
TaskEdges == 1

\* Reason steps of one sub-agent run
MaxChildTurns == 2

\* messages appended to the log of a thread
MaxLog == 4

\* permission interrupts that arrive at the choice window
MaxInterrupts == 3

\* get_model_config(...).get("max_context_tokens", 128000)
max_context_tokens == 128000

\* AUTO_COMPACT_THRESHOLD_RATIO = 0.92, in percent
AUTO_COMPACT_THRESHOLD_RATIO == 92


(***************************************************************************)
(* Text helpers                                                            *)
(***************************************************************************)
Drop(s, k) == SubSeq(s, k + 1, Len(s))

Take(s, k) == SubSeq(s, 1, k)

Contains(s, c) == \E i \in 1..Len(s) : s[i] = c

\* index of the first occurrence of c in s (0 when absent)
IndexOf(s, c) == IF Contains(s, c) THEN CHOOSE i \in 1..Len(s) : s[i] = c /\ \A j \in 1..(i - 1) : s[j] # c ELSE 0

\* str.strip(): remove leading and trailing blanks
RECURSIVE LStrip(_)
LStrip(s) == IF s # <<>> /\ s[1] = " " THEN LStrip(Tail(s)) ELSE s

RECURSIVE RStrip(_)
RStrip(s) == IF s # <<>> /\ s[Len(s)] = " " THEN RStrip(Take(s, Len(s) - 1)) ELSE s

Strip(s) == RStrip(LStrip(s))

\* str.split()[0]: the first whitespace-separated token (<<>> when there is none)
FirstToken(s) == LET t == LStrip(s) IN IF Contains(t, " ") THEN Take(t, IndexOf(t, " ") - 1) ELSE t

\* "needle in text" on strings
IsSubstring(needle, text) == \E i \in 0..Len(text) : i + Len(needle) <= Len(text) /\ SubSeq(text, i + 1, i + Len(needle)) = needle

\* re.match at the start of t of the pattern p in which every "*" was
\* rewritten to ".*"; "." keeps its regex meaning (any one character)
RECURSIVE RegexMatchHere(_, _)
RegexMatchHere(p, t) ==
    IF p = <<>> THEN TRUE
    ELSE IF p[1] = "*" THEN \E k \in 0..Len(t) : RegexMatchHere(Tail(p), Drop(t, k))
    ELSE IF p[1] = "." THEN t # <<>> /\ RegexMatchHere(Tail(p), Tail(t))
    ELSE t # <<>> /\ t[1] = p[1] /\ RegexMatchHere(Tail(p), Tail(t))

\* re.compile(p.replace("*", ".*")).search(t)
RegexSearch(p, t) == \E s \in 0..Len(t) : RegexMatchHere(p, Drop(t, s))

(***************************************************************************)
(* Permission engine: requests                                             *)
(***************************************************************************)
ALLOW == "allow"
DENY == "deny"
ASK == "ask"

ALLOW_ONCE == "allow_once"
ALLOW_SESSION == "allow_session"
UNKNOWN_CHOICE == "unknown_choice"

UserPermissionChoice == {ALLOW_ONCE, ALLOW_SESSION, DENY}

\* GlobalState.get_working_directory()
WorkingDirectory == <<"/", "w">>

\* Path(file_path).relative_to(working_directory); Failed stands for ValueError
RelativeTo(p, wd) ==
    IF Len(p) > Len(wd) + 1 /\ Take(p, Len(wd)) = wd /\ p[Len(wd) + 1] = "/"
    THEN [ok |-> TRUE, path |-> Drop(p, Len(wd) + 1)]
    ELSE [ok |-> FALSE, path |-> p]

PlainKey(tool_name) == [tool |-> tool_name, kind |-> "name", arg |-> <<>>]

\* PermissionRequest._generate_permission_key
GeneratePermissionKey(inv) ==
    IF inv.tool_name = "BashExecuteTool" /\ FirstToken(Strip(inv.command)) # <<>>
    THEN [tool |-> inv.tool_name, kind |-> "cmd", arg |-> FirstToken(Strip(inv.command))]
    ELSE IF inv.tool_name \in {"FileWriteTool", "FileEditTool"} /\ inv.file_path # <<>>
    THEN [tool |-> inv.tool_name, kind |-> "path", arg |-> RelativeTo(inv.file_path, WorkingDirectory).path]
    ELSE PlainKey(inv.tool_name)

(***************************************************************************)
(* Permission engine: rule matching                                        *)
(***************************************************************************)
\* PermissionManager._matches_command_pattern
MatchesCommandPattern(inv, command_type, command_pattern) ==
    LET command == Strip(inv.command) IN
    IF inv.tool_name # "BashExecuteTool" THEN FALSE
    ELSE IF command = <<>> THEN command_pattern = <<"*">>
    ELSE IF command_type # <<"*">> /\ FirstToken(command) # command_type THEN FALSE
    ELSE IF command_pattern = <<"*">> THEN TRUE
    ELSE IF Contains(command_pattern, "*") THEN RegexSearch(command_pattern, command)
    ELSE IsSubstring(command_pattern, command)

\* PermissionManager._matches_path_pattern
MatchesPathPattern(inv, path_pattern) ==
    IF inv.tool_name \notin {"FileWriteTool", "FileEditTool", "FileReadTool"} THEN FALSE
    ELSE IF inv.file_path = <<>> THEN FALSE
    ELSE IF path_pattern = <<"*">> THEN TRUE
    ELSE IF Contains(path_pattern, "*") THEN RegexSearch(path_pattern, inv.file_path)
    ELSE inv.file_path = path_pattern

\* PermissionManager._matches_pattern
MatchesPattern(inv, pattern) ==
    LET hasPart == Contains(pattern, "(") /\ pattern[Len(pattern)] = ")"
        open == IndexOf(pattern, "(")
        tool_part == IF hasPart THEN Take(pattern, open - 1) ELSE pattern
        pattern_part == IF hasPart THEN SubSeq(pattern, open + 1, Len(pattern) - 1) ELSE <<>>
        colon == IndexOf(pattern_part, ":")
    IN  IF tool_part # <<inv.tool_name>> THEN FALSE
        ELSE IF ~hasPart THEN TRUE
        ELSE IF colon # 0
             THEN MatchesCommandPattern(inv, Take(pattern_part, colon - 1), Drop(pattern_part, colon))
             ELSE MatchesPathPattern(inv, pattern_part)

\* PermissionManager._matches_any_pattern
MatchesAnyPattern(inv, patterns) == \E i \in 1..Len(patterns) : MatchesPattern(inv, patterns[i])


\* check_permission with the deny list consulted before the session cache
check_permission_deny_first(cache, config, inv) ==
    IF MatchesAnyPattern(inv, config.deny) THEN DENY
    ELSE IF GeneratePermissionKey(inv) \in cache THEN ALLOW
    ELSE IF MatchesAnyPattern(inv, config.allow) THEN ALLOW
    ELSE ASK

\* check_permission with the allow list consulted before the deny list
check_permission_allow_first(cache, config, inv) ==
    IF GeneratePermissionKey(inv) \in cache THEN ALLOW
    ELSE IF MatchesAnyPattern(inv, config.allow) THEN ALLOW
    ELSE IF MatchesAnyPattern(inv, config.deny) THEN DENY
    ELSE ASK

\* PermissionManager.check_permission: the decision for one invocation
check_permission(cache, config, inv) ==
    IF GeneratePermissionKey(inv) \in cache THEN ALLOW
    ELSE IF MatchesAnyPattern(inv, config.deny) THEN DENY
    ELSE IF MatchesAnyPattern(inv, config.allow) THEN ALLOW
    ELSE ASK

\* apply_user_choice that also caches a one-time permission
apply_user_choice_caches_once(cache, inv, choice) ==
    IF choice \in {ALLOW_ONCE, ALLOW_SESSION} THEN [allowed |-> TRUE, cache |-> cache \cup {GeneratePermissionKey(inv)}]
    ELSE [allowed |-> FALSE, cache |-> cache]

\* PermissionManager.apply_user_choice: the returned flag and the cache it leaves
apply_user_choice(cache, inv, choice) ==
    IF choice = ALLOW_ONCE THEN [allowed |-> TRUE, cache |-> cache]
    ELSE IF choice = ALLOW_SESSION THEN [allowed |-> TRUE, cache |-> cache \cup {GeneratePermissionKey(inv)}]
    ELSE IF choice = DENY THEN [allowed |-> FALSE, cache |-> cache]
    ELSE [allowed |-> FALSE, cache |-> cache]

\* PermissionManager.clear_session_cache
clear_session_cache(cache) == {}

(***************************************************************************)
(* Tool invocations and rule sets used as inputs                           *)
(***************************************************************************)
Invocation(tool_name, command, file_path, display_ok) ==
    [tool_name |-> tool_name, command |-> command, file_path |-> file_path, display_ok |-> display_ok]

InvNames == {"ls", "lsa", "rm", "bempty", "wa", "war", "wetc", "ebad", "ra", "task", "grep"}

\* display_ok: whether get_display_info reports success for these arguments
Inv(name) ==
    CASE name = "ls" -> Invocation("BashExecuteTool", <<"l", "s">>, <<>>, TRUE)
      [] name = "lsa" -> Invocation("BashExecuteTool", <<" ", "l", "s", " ", "-", "a">>, <<>>, TRUE)
      [] name = "rm" -> Invocation("BashExecuteTool", <<"r", "m", " ", "a">>, <<>>, TRUE)
      [] name = "bempty" -> Invocation("BashExecuteTool", <<" ">>, <<>>, TRUE)
      [] name = "wa" -> Invocation("FileWriteTool", <<>>, <<"/", "w", "/", "a">>, TRUE)
      [] name = "war" -> Invocation("FileWriteTool", <<>>, <<"a">>, TRUE)
      [] name = "wetc" -> Invocation("FileWriteTool", <<>>, <<"/", "e", "/", "a">>, TRUE)
      [] name = "ebad" -> Invocation("FileEditTool", <<>>, <<"/", "w", "/", "b">>, FALSE)
      [] name = "ra" -> Invocation("FileReadTool", <<>>, <<"/", "w", "/", "a">>, TRUE)
      [] name = "task" -> Invocation("TaskTool", <<>>, <<>>, TRUE)
      [] name = "grep" -> Invocation("GrepTool", <<>>, <<>>, TRUE)
      [] name = "glob" -> Invocation("GlobTool", <<>>, <<>>, TRUE)

\* rule strings, one lexeme per tool name and per other character
RuleTool(t) == <<t>>

RuleBash(ctype, cpat) == <<"BashExecuteTool", "(">> \o ctype \o <<":">> \o cpat \o <<")">>

RulePath(t, ppat) == <<t, "(">> \o ppat \o <<")">>

\* PermissionManager.load_permission_config: the built-in default rule set
DefaultConfig ==
    [allow |-> <<RuleTool("FileReadTool"), RuleTool("GlobTool"), RuleTool("GrepTool"), RuleTool("TodoWriteTool"), RuleTool("TaskTool")>>,
     deny |-> <<>>]

\* configured rule sets (config_manager.get("permissions", ...))
Configs ==
    { DefaultConfig,
      [allow |-> <<RuleTool("FileReadTool"), RuleTool("GrepTool"), RuleTool("TaskTool")>>,
       deny |-> <<RuleBash(<<"l", "s">>, <<"*", "-", "a">>)>>],
      [allow |-> <<RuleTool("BashExecuteTool"), RulePath("FileWriteTool", <<"*">>)>>,
       deny |-> <<RuleBash(<<"*">>, <<"r", "m">>), RulePath("FileWriteTool", <<"/", "e", "*">>)>>],
      [allow |-> <<RuleBash(<<"l", "s">>, <<"*">>), RulePath("FileWriteTool", <<"a">>)>>,
       deny |-> <<RuleTool("*"), RuleTool("FileReadTool")>>] }


(***************************************************************************)
(* Agent runner: messages, tool calls and the model's turns                *)
(***************************************************************************)
\* what the model may answer with: a sequence of tool invocations per turn
Turns ==
    { <<"ls", "wa">>,
      <<"lsa", "task", "grep">>,
      <<"task", "task">>,
      <<"ebad", "wa", "grep">>,
      <<"glob">> }

\* the rule set the runner is configured with
AgentConfig ==
    [allow |-> <<RuleTool("FileReadTool"), RuleTool("GlobTool"), RuleTool("GrepTool"), RuleTool("TaskTool")>>,
     deny |-> <<RuleBash(<<"l", "s">>, <<"*", "-", "a">>)>>]

\* get_all_tools: the names of the tool objects it builds (glob_tool is built
\* as a second GrepTool, so no tool is registered under the name GlobTool)
RegisteredTools ==
    {"FileReadTool", "FileEditTool", "FileWriteTool", "FileListTool", "GrepTool", "TaskTool", "TodoWriteTool",
     "BashExecuteTool"}

\* get_tool_by_name: the tool registered under the name, or None
get_tool_by_name(name) == IF name \in RegisteredTools THEN name ELSE "None"

\* MyBaseTool.is_parallelizable of the registered tools
is_parallelizable(tool_name) == tool_name \in {"GrepTool", "GlobTool", "FileListTool"}

HumanMessage(content) == [type |-> "human", tool_call_id |-> 0, content |-> content, tool_calls |-> <<>>]

AIMessage(ids) == [type |-> "ai", tool_call_id |-> 0, content |-> "text", tool_calls |-> ids]

ToolMessage(content, tool_call_id) == [type |-> "tool", tool_call_id |-> tool_call_id, content |-> content, tool_calls |-> <<>>]

ToolCall(id, name) == [id |-> id, inv |-> name]

MapSeq(s, F(_)) == [i \in 1..Len(s) |-> F(s[i])]

RECURSIVE Flatten(_)
Flatten(ss) == IF ss = <<>> THEN <<>> ELSE Head(ss) \o Flatten(Tail(ss))

IdsOf(calls) == {calls[i].id : i \in 1..Len(calls)}

IsTask(call) == Inv(call.inv).tool_name = "TaskTool"

\* ReActAgent._process_interrupt_when_tool_execute: the Tool messages it appends
Processed(id, msgs) ==
    \E i \in 1..Len(msgs) : /\ msgs[i].type = "tool"
                            /\ msgs[i].tool_call_id = id
                            /\ \A j \in (i + 1)..Len(msgs) : msgs[j].type # "ai"

ProcessInterruptWhenToolExecute(interrupted, calls, msgs) ==
    LET Unprocessed(c) == ~Processed(c.id, msgs)
        Cancel(c) == ToolMessage("user_canceled", c.id)
    IN  IF interrupted THEN MapSeq(SelectSeq(calls, Unprocessed), Cancel) ELSE <<>>

\* a mapping that denies on "3" alone
MapUserChoiceDeniesThree(user_choice) ==
    IF user_choice = "3" THEN DENY
    ELSE IF user_choice = "2" THEN ALLOW_SESSION
    ELSE ALLOW_ONCE

\* the mapping of the value delivered to interrupt() onto a choice
MapUserChoice(user_choice) ==
    IF user_choice = "1" THEN ALLOW_ONCE
    ELSE IF user_choice = "2" THEN ALLOW_SESSION
    ELSE DENY

\* the loop over need_interrupt_requests: interrupt() returns the k-th resume
\* value of this node execution, or suspends the node when there is none
RECURSIVE InterruptLoop(_, _, _, _)
InterruptLoop(need, k, resumes, acc) ==
    IF k > Len(need) THEN acc
    ELSE IF k > Len(resumes) THEN [acc EXCEPT !.suspended = TRUE, !.shown = need[k].id]
    ELSE LET choice == MapUserChoice(resumes[k])
             r == apply_user_choice(acc.cache, Inv(need[k].inv), choice)
             applied == Append(acc.applied, [id |-> need[k].id, choice |-> choice])
         IN  IF r.allowed
             THEN InterruptLoop(need, k + 1, resumes,
                      [acc EXCEPT !.cache = r.cache, !.allowed = Append(@, need[k]), !.applied = applied])
             ELSE InterruptLoop(need, k + 1, resumes,
                      [acc EXCEPT !.cache = r.cache, !.refuse = TRUE, !.applied = applied,
                                  !.msgs = Append(@, ToolMessage("permission_denied", need[k].id))])

\* the decision of the engine for every call, in tool-call order
Decided(cache, config, calls) ==
    [i \in 1..Len(calls) |-> [call |-> calls[i], decision |-> check_permission(cache, config, Inv(calls[i].inv))]]

\* the calls whose decision is one of ds
WithDecision(pairs, ds) ==
    LET Is(p) == p.decision \in ds
        picked == SelectSeq(pairs, Is)
    IN  [i \in 1..Len(picked) |-> picked[i].call]

\* the first loop with the DENY branch also appending to allowed_tool_calls
CheckLoop_deny_allowed(cache, config, calls) ==
    [allowed |-> WithDecision(Decided(cache, config, calls), {ALLOW, DENY}),
     denied |-> WithDecision(Decided(cache, config, calls), {DENY}),
     ask_requests |-> WithDecision(Decided(cache, config, calls), {ASK})]

\* the three lists the first loop builds from the decisions
SplitByDecision(pairs) ==
    [allowed |-> WithDecision(pairs, {ALLOW}),
     denied |-> WithDecision(pairs, {DENY}),
     ask_requests |-> WithDecision(pairs, {ASK})]

\* the first loop of _check_permissions_node: every call is put to the engine
CheckLoop(cache, config, calls) == SplitByDecision(Decided(cache, config, calls))

\* the display-info loop and the interrupt loop, from the lists of the first loop
AskUser(loop, cache, resumes) ==
    LET DenyMsg(c) == ToolMessage("permission_denied", c.id)
        FailMsg(c) == ToolMessage("display_failed", c.id)
        DisplayOk(c) == Inv(c.inv).display_ok
        DisplayFails(c) == ~Inv(c.inv).display_ok
    IN  InterruptLoop(SelectSeq(loop.ask_requests, DisplayOk), 1, resumes,
            [suspended |-> FALSE, shown |-> 0, cache |-> cache, refuse |-> FALSE,
             allowed |-> loop.allowed,
             msgs |-> MapSeq(loop.denied, DenyMsg) \o MapSeq(SelectSeq(loop.ask_requests, DisplayFails), FailMsg),
             applied |-> <<>>,
             denied |-> IdsOf(loop.denied),
             asked |-> IdsOf(loop.ask_requests)])

\* the end of the node: with a refusal every unanswered call is reported canceled
FinishPass(acc, calls, log) ==
    IF acc.suspended THEN acc
    ELSE [acc EXCEPT !.msgs = @ \o ProcessInterruptWhenToolExecute(acc.refuse, calls, log \o @)]

\* one execution of ReActAgent._check_permissions_node past its cancel check:
\* msgs are the Tool messages it appended to state.messages
CheckPermissionsPass(cache, config, calls, resumes, log) ==
    FinishPass(AskUser(CheckLoop(cache, config, calls), cache, resumes), calls, log)


(***************************************************************************)
(* State                                                                   *)
(***************************************************************************)
VARIABLES
    messages,                \* SubAgentState.messages of the thread's checkpoint
    tool_calls,              \* SubAgentState.tool_calls
    user_canceled,           \* SubAgentState.user_canceled
    current_iteration,       \* SubAgentState.current_iteration
    pc,                      \* the node the checkpoint names as next ("END": none)
    resume_values,           \* resume values delivered to the suspended node execution
    _user_canceled,          \* ReActAgent._user_canceled
    task_tool_user_canceled, \* TaskTool._user_canceled (one shared tool instance)
    session_cache,           \* PermissionManager.session_cache
    config,                  \* the configured permission rule set
    user_input_queue,        \* GlobalState._user_input_queue
    event_queue,             \* EventManager._event_queue: 1 when USER_CANCEL events wait (their
                             \* handlers only set flags, so waiting events act as one)
    et,                      \* the running execute_tools node
    tn,                      \* the running task_node_i nodes
    executed,                \* ids of the current turn's tool calls whose handler was started
    model_calls,             \* number of bound_model.ainvoke calls made by Reason
    turn_count,              \* number of assistant turns that carried tool calls
    run_count,               \* number of fresh runs started
    turn,                    \* the current turn as the model emitted it
    cp,                      \* what the last completed check_permissions execution did
    cancel_latched,          \* USER_CANCEL was delivered while this run was running
    history,                 \* the permission engine calls made so far
    pending,                 \* requests answered ASK whose choice is still to be applied
    granted,                 \* keys given ALLOW_SESSION since the cache was last cleared
    executions,              \* number of graph executions (astream loops) active on the thread
    requests,                \* the run_stream calls in flight and the status each has read
    comp,                    \* position of compensation_pending_input_loop
    lock,                    \* AsyncBatchQueue._lock: its holder, or "free"
    callers,                 \* the coroutines calling the queue's operations
    sub_agent_config,        \* the tools entry of the sub-agent descriptor given to TaskTool
    sub_agent_tools,         \* the tool list of the child agent TaskTool has built
    arun,                    \* the TaskTool._arun call of each task_node_i and the child agent it runs
    step,                    \* number of steps the running execution has made (the Pregel loop's counter)
    stream_events,           \* types of the events process_input_stream has yielded since the last run began
    _is_running,             \* EventManager._is_running
    _event_queue,            \* EventManager._event_queue: the published events, by publish number
    _processing_task,        \* EventManager._processing_task: where the task running _process_events is
    _subscribers,            \* EventManager._subscribers of one event type, in subscription order
    dispatch,                \* _dispatch_event's locals: the event and its copy of the subscriber list
    active,                  \* the coroutines of asynchronous callbacks that gather has not seen finish
    received,                \* for each callback, the events it was called with, in call order
    raised,                  \* the events for which a callback raised
    publish_count,           \* number of publish calls made
    dropped,                 \* the events published while _is_running was False
    stop_at,                 \* where the caller of stop() is
    last_done,               \* the last event whose _dispatch_event call returned, with its subscriber copy
    clock,                   \* the time time.time() and the file system stamp changes with
    file,                    \* the file at the path: whether it exists and its mtime
    _freshness_records,      \* freshness._freshness_records at the path
    handler,                 \* the file tool handler that is running, and where it is
    view,                    \* what the agent knows of the file's content: "never" seen, "current", or "stale"
    silent_overwrite,        \* an agent's write has replaced content the agent had not seen
    last_op,                 \* the last call of the tracker's interface, with the file's state at the call
    last_check,              \* the last check_freshness call: what it was given and what it returned
    last_tool,               \* the last file tool handler that ended, and how
    todo_files,              \* the todo list stored in .ai_dev/todos/<agent_id>.json, <<>> without a file
    todo_call,               \* the last TodoWriteTool call: whether its list kept the rule, and how it ended
    agent_files,             \* the .md files of the user and the project agents directory, by agent_name
    agents_cache,            \* the alru_cache of get_available_sub_agents, with the files it was loaded from
    selected,                \* the last get_sub_agent_by_name of a Task call: the name asked for and the source found
    slot_calls,              \* state.tool_calls of the turn being routed: the tool names, by position
    slot_nodes,              \* the task_node_i executions of the step: phase, the call run, the task id
    slot_exec,               \* the execute_tools execution of the step: phase and the calls run
    slot_next,               \* what the graph does next: a node, a step of parallel nodes, or nothing
    slot_msgs,               \* positions of the turn's calls that have a Tool message in the state
    reason_saw,              \* the last Reason step found a Tool message for each call of the turn before it
    resume_task_ids,         \* config.configurable.resume_task_ids of the running execution
    resumed_tasks,           \* ReActAgent.resumed_tasks
    bound_since_resume,      \* the supplied ids that a slot has bound since the last resume
    double_bound,            \* a supplied id was bound by a second slot execution
    sub_next,                \* where the run of a sub-agent stands: the node of its graph that is next
    sub_turns,               \* the Reason steps the sub-agent has taken in this run
    sub_events,              \* the events its run_stream has yielded in this run, in order
    sub_last_message,        \* TaskTool._arun's last_message: the turn whose message it holds, 0 for None
    sub_result,              \* what TaskTool._arun returned for the run
    last_reason,             \* what the Reason step that was the last step did: compaction, cancel, the inputs it popped
    interruptions,           \* ChoiceWindow.interruptions: the queued interrupts, oldest first
    unfinished_tasks,        \* the unfinished-task count of that asyncio.Queue
    window_task,             \* ChoiceWindow.current_task: the interrupt on display
    choice_result,           \* ChoiceWindow.choice_result: interrupt id -> choice
    window_task_ids,         \* ChoiceWindow.resume_task_ids
    resumes,                 \* the calls of cli.process_stream_input(resume, task_ids), in order
    appended,                \* the interrupts appended so far, in order
    since_resume,            \* ids of the interrupts appended since the last resume was sent
    last_key,                \* the choice the last handled key press carried
    getter                   \* the coroutine that calls safe_get: where it stands and the items it has returned

stateVars == <<messages, tool_calls, user_canceled, current_iteration, pc, resume_values>>
nodeVars == <<et, tn>>
permVars == <<session_cache, config, history, pending, granted>>
ghostVars == <<executed, model_calls, turn_count, run_count, turn, cp, cancel_latched>>
vars == <<messages, tool_calls, user_canceled, current_iteration, pc, resume_values, _user_canceled,
          task_tool_user_canceled, session_cache, config, user_input_queue, event_queue, et, tn,
          executed, model_calls, turn_count, run_count, turn, cp, cancel_latched, history, pending, granted,
          executions, requests, comp, lock, callers, sub_agent_config, sub_agent_tools,
          arun,
          step, stream_events,
          _is_running, _event_queue, _processing_task, _subscribers, dispatch, active, received, raised, publish_count, dropped, stop_at, last_done,
          clock, file, _freshness_records, handler, view, silent_overwrite, last_op, last_check, last_tool,
          todo_files, todo_call,
          agent_files, agents_cache, selected,
          slot_calls, slot_nodes, slot_exec, slot_next, slot_msgs, reason_saw, resume_task_ids, resumed_tasks, bound_since_resume, double_bound,
          sub_next, sub_turns, sub_events, sub_last_message, sub_result,
          last_reason,
          interruptions, unfinished_tasks, window_task, choice_result, window_task_ids, resumes, appended, since_resume, last_key,
          getter>>
threadVars == <<executions, requests, comp>>
queueVars == <<lock, callers>>
taskVars == <<sub_agent_config, sub_agent_tools>>
childVars == <<arun>>
limitVars == <<step, stream_events>>
busVars == <<_is_running, _event_queue, _processing_task, _subscribers, dispatch, active, received, raised, publish_count, dropped, stop_at, last_done>>
freshVars == <<clock, file, _freshness_records, handler, view, silent_overwrite, last_op, last_check, last_tool>>
todoVars == <<todo_files, todo_call>>
agentFileVars == <<agent_files, agents_cache, selected>>
slotVars == <<slot_calls, slot_nodes, slot_exec, slot_next, slot_msgs, reason_saw, resume_task_ids, resumed_tasks, bound_since_resume, double_bound>>
streamVars == <<sub_next, sub_turns, sub_events, sub_last_message, sub_result>>
compactVars == <<last_reason>>
windowVars == <<interruptions, unfinished_tasks, window_task, choice_result, window_task_ids, resumes, appended, since_resume, last_key>>
getVars == <<getter>>
extVars == <<threadVars, queueVars, taskVars, childVars, limitVars, busVars, freshVars, todoVars, agentFileVars, slotVars, streamVars, compactVars, windowVars, getVars>>

TaskSlots == 0..(MaxTasks - 1)

NoNode == [phase |-> "none", msgs |-> <<>>, ret |-> FALSE]

EtIdle == [phase |-> "none", msgs |-> <<>>, ret |-> FALSE, serial |-> <<>>, si |-> 0, par |-> <<>>, pst |-> <<>>]

NoTurn == [calls |-> <<>>, cache0 |-> {}, ai_index |-> 0, shown |-> <<>>, user_denied |-> FALSE, published |-> FALSE,
           entry_cancel |-> FALSE]

NoCp == [done |-> FALSE, cache |-> {}, refuse |-> FALSE, allowed |-> <<>>, msgs |-> <<>>, applied |-> <<>>, denied |-> {}]

NoOp == [op |-> "none", inv |-> "none", choice |-> "none", result |-> "none"]

\* the request slots: 0 is the compensation loop's own call of run_stream
Requests == 0..MaxRequests

\* the coroutines that use the input queue: two callers of safe_put, one of
\* pop_all and one of pop_batch
Callers == {"put1", "put2", "pop_all", "pop_batch"}

IdleCaller == [at |-> "idle", item |-> 0, items |-> <<>>, max_items |-> 0, returned |-> <<>>]

\* SubAgentConfig.tools: a string or a list of strings
Descriptor(is_list, names) == [is_list |-> is_list, names |-> names]

NoDescriptor == Descriptor(FALSE, <<>>)

NoChild == [built |-> FALSE, tools |-> <<>>]

\* nothing is in flight on the thread, the queue is unused and no child is built
ThreadIdle ==
    /\ executions = 0
    /\ requests = [i \in Requests |-> "none"]
    /\ comp = "sleep"

QueueIdle ==
    /\ lock = "free"
    /\ callers = [c \in Callers |-> IdleCaller]

\* TaskTool._arun is not running in any slot
NoArun == [at |-> "none", child_user_canceled |-> FALSE, child_canceled |-> FALSE, last_message |-> "None",
           ret |-> "None"]

ArunIdle == arun = [i \in TaskSlots |-> NoArun]

\* no execution has made a step and nothing was streamed
LimitIdle ==
    /\ step = 0
    /\ stream_events = {}

\* the callbacks: s1 and s2 are plain functions, a1 and a2 are coroutine functions
Handlers == {"s1", "s2", "a1", "a2"}

NoDispatch == [event |-> 0, subscribers |-> <<>>]

\* EventManager.__init__
BusIdle ==
    /\ _is_running = FALSE
    /\ _event_queue = <<>>
    /\ _processing_task = "None"
    /\ _subscribers = <<>>
    /\ dispatch = NoDispatch
    /\ active = {}
    /\ received = [h \in Handlers |-> <<>>]
    /\ raised = {}
    /\ publish_count = 0
    /\ dropped = {}
    /\ stop_at = "idle"
    /\ last_done = NoDispatch

\* None for a time stamp
NoTime == -1

\* no FileFreshnessRecord is stored for the path
NoRecord == [present |-> FALSE, last_read_time |-> NoTime, last_agent_edit_time |-> NoTime,
             last_external_edit_time |-> NoTime]

NoHandler == [tool |-> "None", at |-> "idle", old_file_exists |-> FALSE, old_string |-> "", after_write |-> FALSE]

NoCall == [op |-> "None", exists |-> FALSE, mtime |-> NoTime]

NoCheck == [done |-> FALSE, prev |-> NoCall, record |-> NoRecord, exists |-> FALSE, mtime |-> NoTime,
            needs_read |-> FALSE, reason |-> "None"]

NoTool == [tool |-> "None", outcome |-> "None", clean |-> FALSE]

\* the module freshness as imported, a path without a file
FreshIdle ==
    /\ clock = 0
    /\ file = [exists |-> FALSE, mtime |-> NoTime]
    /\ _freshness_records = NoRecord
    /\ handler = NoHandler
    /\ view = "never"
    /\ silent_overwrite = FALSE
    /\ last_op = NoCall
    /\ last_check = NoCheck
    /\ last_tool = NoTool

\* the agents that keep a todo list: the main agent and one sub-agent
TodoAgents == {"main", "sub"}

NoTodoCall == [valid |-> TRUE, outcome |-> "None"]

\* no todo file has been written
TodoIdle ==
    /\ todo_files = [a \in TodoAgents |-> <<>>]
    /\ todo_call = NoTodoCall

AgentDirs == {"user", "project"}

\* agent names: the built-in one and one that only a file can define
AgentNames == {"general-purpose", "reviewer"}

NoFiles == [d \in AgentDirs |-> [n \in AgentNames |-> "absent"]]

NoCache == [loaded |-> FALSE, active |-> [n \in AgentNames |-> "None"], files |-> NoFiles]

\* no agent file exists and nothing has been loaded
AgentFilesIdle ==
    /\ agent_files = NoFiles
    /\ agents_cache = NoCache
    /\ selected = [agent_name |-> "None", agent_type |-> "None"]

\* the task nodes of the main graph
TaskNodeIds == 0..(TaskNodes - 1)

NoTaskId == [node_index |-> -1, uuid |-> 0]

NoSlot == [phase |-> "none", ran |-> 0, task_id |-> NoTaskId, reused |-> FALSE]

NoExec == [phase |-> "none", ran |-> {}]

\* the graph is at its entry point, nothing has been routed
SlotsIdle ==
    /\ slot_calls = <<>>
    /\ slot_nodes = [i \in TaskNodeIds |-> NoSlot]
    /\ slot_exec = NoExec
    /\ slot_next = "reason"
    /\ slot_msgs = {}
    /\ reason_saw = TRUE
    /\ resume_task_ids = {}
    /\ resumed_tasks = {}
    /\ bound_since_resume = {}
    /\ double_bound = FALSE

NoResult == [status |-> "None", turn |-> 0]

\* no sub-agent run has started
StreamIdle ==
    /\ sub_next = "idle"
    /\ sub_turns = 0
    /\ sub_events = <<>>
    /\ sub_last_message = 0
    /\ sub_result = NoResult

NoMsg == [type |-> "none", content |-> "", total_tokens |-> 0]

NoReason == [ran |-> FALSE, compacted |-> FALSE, canceled |-> FALSE, before |-> <<>>, summary |-> NoMsg,
             inputs |-> <<>>, ai |-> NoMsg]

\* the last step was not a Reason step
CompactIdle == last_reason = NoReason

NoInterrupt == [id |-> 0, permission_key |-> "", task_id |-> ""]

\* the window as constructed
WindowIdle ==
    /\ interruptions = <<>>
    /\ unfinished_tasks = 0
    /\ window_task = NoInterrupt
    /\ choice_result = <<>>
    /\ window_task_ids = {}
    /\ resumes = <<>>
    /\ appended = <<>>
    /\ since_resume = {}
    /\ last_key = ""

\* no call of safe_get is under way
GetIdle == getter = [at |-> "idle", returned |-> <<>>]

ExtInit ==
    /\ ThreadIdle
    /\ QueueIdle
    /\ sub_agent_config = NoDescriptor
    /\ sub_agent_tools = NoChild
    /\ ArunIdle
    /\ LimitIdle
    /\ BusIdle
    /\ FreshIdle
    /\ TodoIdle
    /\ AgentFilesIdle
    /\ SlotsIdle
    /\ StreamIdle
    /\ CompactIdle
    /\ WindowIdle
    /\ GetIdle

AgentInit ==
    /\ messages = <<>>
    /\ tool_calls = <<>>
    /\ user_canceled = FALSE
    /\ current_iteration = 0
    /\ pc = "END"
    /\ resume_values = <<>>
    /\ _user_canceled = FALSE
    /\ task_tool_user_canceled = FALSE
    /\ user_input_queue = <<>>
    /\ event_queue = 0
    /\ et = EtIdle
    /\ tn = [i \in TaskSlots |-> NoNode]
    /\ executed = {}
    /\ model_calls = 0
    /\ turn_count = 0
    /\ run_count = 0
    /\ turn = NoTurn
    /\ cp = NoCp
    /\ cancel_latched = FALSE

Init ==
    /\ AgentInit
    /\ ExtInit
    /\ session_cache = {}
    /\ config = AgentConfig
    /\ history = NoOp
    /\ pending = {}
    /\ granted = {}

\* StateSnapshot.next of the thread's checkpoint: the nodes still to run (an
\* interrupted node stays in it until it is resumed and returns)
SnapshotNext ==
    IF pc = "END" THEN {}
    ELSE IF pc = "interrupted" THEN {"check_permissions"}
    ELSE {pc}

\* StateSnapshot.interrupts: the id of the call whose interrupt() is pending
SnapshotInterrupts == IF pc = "interrupted" THEN {turn.shown[Len(turn.shown)]} ELSE {}

\* get_graph_status that looks at the runnable nodes before the interrupts
get_graph_status_next_first ==
    IF SnapshotNext # {} THEN "Running"
    ELSE IF SnapshotInterrupts # {} THEN "Interrupted"
    ELSE "Finished"

\* ReActAgent.get_graph_status
get_graph_status ==
    IF SnapshotInterrupts # {} THEN "Interrupted"
    ELSE IF SnapshotNext # {} THEN "Running"
    ELSE "Finished"

\* run_stream: the events it yields itself before any graph output
run_stream_yields(status, input) ==
    IF status = "Running" THEN <<[type |-> "user_input_queued", content |-> input]>> ELSE <<>>

\* the types of a sequence of stream events
run_stream_types(events) == {events[k].type : k \in 1..Len(events)}

(***************************************************************************)
(* run_stream: one request on the thread                                   *)
(***************************************************************************)
ResumeValues == {"1", "2", "3"}

\* status Interrupted: the input is delivered as the resume value
RunStreamResume(value) ==
    /\ get_graph_status = "Interrupted"
    /\ _user_canceled' = FALSE
    /\ resume_values' = Append(resume_values, value)
    /\ pc' = "check_permissions"
    /\ turn' = [turn EXCEPT !.user_denied = @ \/ MapUserChoice(value) = DENY]
    /\ UNCHANGED <<messages, tool_calls, user_canceled, current_iteration, task_tool_user_canceled,
                   user_input_queue, event_queue, nodeVars, permVars, extVars,
                   executed, model_calls, turn_count, run_count, cp, cancel_latched>>

\* status Running: the input is put on the input queue
RunStreamQueued ==
    /\ get_graph_status = "Running"
    /\ Len(user_input_queue) < MaxQueue
    /\ _user_canceled' = FALSE
    /\ user_input_queue' = Append(user_input_queue, "text")
    /\ UNCHANGED <<stateVars, task_tool_user_canceled, event_queue, nodeVars, permVars, extVars, ghostVars>>

\* status Finished: a fresh run is seeded with the input as a User message
RunStreamFresh ==
    /\ get_graph_status = "Finished"
    /\ run_count < MaxRuns
    /\ _user_canceled' = FALSE
    /\ messages' = Append(messages, HumanMessage("text"))
    /\ tool_calls' = <<>>
    /\ user_canceled' = FALSE
    /\ current_iteration' = 0
    /\ resume_values' = <<>>
    /\ pc' = "reason"
    /\ run_count' = run_count + 1
    /\ turn' = NoTurn
    /\ cp' = NoCp
    /\ cancel_latched' = FALSE
    /\ UNCHANGED <<task_tool_user_canceled, user_input_queue, event_queue, nodeVars, permVars, extVars,
                   executed, model_calls, turn_count>>

(***************************************************************************)
(* USER_CANCEL on the event bus                                            *)
(***************************************************************************)
\* the user's cancel key: EventManager.publish(USER_CANCEL)
PublishUserCancel ==
    /\ event_queue = 0
    /\ event_queue' = 1
    /\ UNCHANGED <<stateVars, _user_canceled, task_tool_user_canceled, user_input_queue, nodeVars, permVars, extVars, ghostVars>>

\* EventManager._dispatch_event: the subscribed _process_user_cancel handlers
DispatchUserCancel ==
    /\ event_queue = 1
    /\ event_queue' = 0
    /\ _user_canceled' = TRUE
    /\ task_tool_user_canceled' = TRUE
    /\ user_input_queue' = <<>>
    /\ cancel_latched' = (cancel_latched \/ get_graph_status = "Running")
    /\ UNCHANGED <<stateVars, nodeVars, permVars, extVars, executed, model_calls, turn_count, run_count, turn, cp>>


(***************************************************************************)
(* Reason                                                                  *)
(***************************************************************************)
\* _should_continue
should_continue(canceled, calls) ==
    IF canceled THEN "END"
    ELSE IF calls # <<>> THEN "check_permissions"
    ELSE "END"

\* _reason_node with the cancel flag set: no model call
ReasonCanceled ==
    /\ pc = "reason"
    /\ _user_canceled
    /\ user_input_queue' = <<>>
    /\ user_canceled' = TRUE
    /\ pc' = should_continue(TRUE, tool_calls)
    /\ UNCHANGED <<messages, tool_calls, current_iteration, resume_values, _user_canceled,
                   task_tool_user_canceled, event_queue, nodeVars, permVars, extVars, ghostVars>>

\* _reason_node: pending inputs are popped and the model is invoked
ReasonInvoke(resp) ==
    LET calls == [i \in 1..Len(resp) |-> ToolCall(10 * (turn_count + 1) + i, resp[i])]
        ids == [i \in 1..Len(resp) |-> calls[i].id]
    IN  /\ pc = "reason"
        /\ ~_user_canceled
        /\ resp # <<>> => turn_count < MaxTurns
        /\ user_input_queue' = <<>>
        /\ messages' = Append(messages, AIMessage(ids))
        /\ tool_calls' = calls
        /\ current_iteration' = current_iteration + 1
        /\ model_calls' = model_calls + 1
        /\ turn_count' = IF resp # <<>> THEN turn_count + 1 ELSE turn_count
        /\ resume_values' = <<>>
        /\ pc' = should_continue(user_canceled, calls)
        /\ turn' = [NoTurn EXCEPT !.calls = calls, !.cache0 = session_cache, !.ai_index = Len(messages) + 1]
        /\ cp' = NoCp
        /\ UNCHANGED <<user_canceled, _user_canceled, task_tool_user_canceled, event_queue, nodeVars,
                       permVars, extVars, run_count, cancel_latched>>
        /\ executed' = IF resp # <<>> THEN {} ELSE executed

(***************************************************************************)
(* CheckPermissions                                                        *)
(* (its first branch, an empty tool_calls list, is never taken: the router *)
(* enters the node only with tool calls)                                   *)
(***************************************************************************)
NonTaskCalls(calls) == LET NotTask(c) == ~IsTask(c) IN SelectSeq(calls, NotTask)

TaskCalls(calls) == SelectSeq(calls, IsTask)

ThisPass == CheckPermissionsPass(session_cache, config, tool_calls, resume_values, messages)

CpOf(r) == [done |-> TRUE, cache |-> r.cache, refuse |-> r.refuse, allowed |-> r.allowed, msgs |-> r.msgs,
            applied |-> r.applied, denied |-> r.denied]

\* the cancel flag is set at node entry: every call is answered "user canceled"
CheckPermissionsCanceled ==
    /\ pc = "check_permissions"
    /\ _user_canceled
    /\ messages' = messages \o ProcessInterruptWhenToolExecute(TRUE, tool_calls, messages)
    /\ user_canceled' = TRUE
    /\ pc' = "END"
    /\ turn' = [turn EXCEPT !.entry_cancel = TRUE]
    /\ UNCHANGED <<tool_calls, current_iteration, resume_values, _user_canceled, task_tool_user_canceled,
                   user_input_queue, event_queue, nodeVars, permVars, extVars,
                   executed, model_calls, turn_count, run_count, cp, cancel_latched>>

\* interrupt() has no resume value left: the node execution is suspended
CheckPermissionsInterrupt ==
    /\ pc = "check_permissions"
    /\ ~_user_canceled
    /\ \E r \in {ThisPass} :
               /\ r.suspended
               /\ session_cache' = r.cache
               /\ pc' = "interrupted"
               /\ turn' = [turn EXCEPT !.shown = Append(@, r.shown)]
               /\ UNCHANGED <<messages, tool_calls, user_canceled, current_iteration, resume_values, _user_canceled,
                              task_tool_user_canceled, user_input_queue, event_queue, nodeVars, config, history, pending, granted, extVars,
                              executed, model_calls, turn_count, run_count, cp, cancel_latched>>

\* a choice was DENY: USER_CANCEL is published and the run ends
CheckPermissionsRefused ==
    /\ pc = "check_permissions"
    /\ ~_user_canceled
    /\ \E r \in {ThisPass} :
               /\ ~r.suspended
               /\ r.refuse
               /\ session_cache' = r.cache
               /\ messages' = messages \o r.msgs
               /\ user_canceled' = TRUE
               /\ event_queue' = 1
               /\ pc' = "END"
               /\ cp' = CpOf(r)
               /\ turn' = [turn EXCEPT !.published = TRUE]
               /\ UNCHANGED <<tool_calls, current_iteration, resume_values, _user_canceled, task_tool_user_canceled,
                              user_input_queue, nodeVars, config, history, pending, granted, extVars,
                              executed, model_calls, turn_count, run_count, cancel_latched>>

\* _should_execute_tools on the allowed calls: the nodes of the next step
CheckPermissionsRoute ==
    /\ pc = "check_permissions"
    /\ ~_user_canceled
    /\ \E r \in {ThisPass} :
               /\ ~r.suspended
               /\ ~r.refuse
               /\ session_cache' = r.cache
               /\ messages' = messages \o r.msgs
               /\ tool_calls' = r.allowed
               /\ cp' = CpOf(r)
               /\ IF user_canceled THEN pc' = "END" /\ UNCHANGED nodeVars
                  ELSE IF r.allowed = <<>> THEN pc' = "reason" /\ UNCHANGED nodeVars
                  ELSE /\ pc' = "tools"
                       /\ et' = IF NonTaskCalls(r.allowed) # <<>> THEN [EtIdle EXCEPT !.phase = "entry"] ELSE EtIdle
                       /\ tn' = [i \in TaskSlots |-> IF i < Len(TaskCalls(r.allowed)) THEN [NoNode EXCEPT !.phase = "entry"] ELSE NoNode]
               /\ UNCHANGED <<user_canceled, current_iteration, resume_values, _user_canceled, task_tool_user_canceled,
                              user_input_queue, event_queue, config, history, pending, granted, extVars,
                              executed, model_calls, turn_count, run_count, turn, cancel_latched>>


(***************************************************************************)
(* ExecuteTools: one atomic step between two awaits of the node            *)
(***************************************************************************)
ParallelCalls(calls) == LET P(c) == is_parallelizable(Inv(c.inv).tool_name) IN SelectSeq(NonTaskCalls(calls), P)

\* the calls for which get_tool_by_name returns None
UnknownCalls(calls) == LET U(c) == get_tool_by_name(Inv(c.inv).tool_name) = "None" IN SelectSeq(NonTaskCalls(calls), U)

SequentialCalls(calls) == LET Q(c) == ~is_parallelizable(Inv(c.inv).tool_name) IN SelectSeq(NonTaskCalls(calls), Q)

\* the created asyncio tasks start to run at the node's first await
Started(pst) == [j \in 1..Len(pst) |-> IF pst[j] = "created" THEN "run" ELSE pst[j]]

\* the branch taken for the parallel tasks when the cancel flag is set
CancelParallel(par, pst) ==
    [j \in 1..Len(par) |->
        IF pst[j] = "ok" THEN ToolMessage("result", par[j].id)
        ELSE IF pst[j] = "err" THEN ToolMessage("exec_exception", par[j].id)
        ELSE ToolMessage("user_canceled", par[j].id)]

\* the results of asyncio.gather(..., return_exceptions=True)
GatherResults(par, pst) ==
    [j \in 1..Len(par) |->
        IF pst[j] = "ok" THEN ToolMessage("result", par[j].id) ELSE ToolMessage("tool_failed", par[j].id)]

\* the serial loop from its k-th tool up to the node's next await or its return
ContinueSerial(e, k, flag) ==
    LET CancelMsg(c) == ToolMessage("user_canceled", c.id)
    IN  IF flag
        THEN [e EXCEPT !.phase = "done", !.ret = TRUE, !.si = Len(e.serial) + 1,
                       !.msgs = @ \o MapSeq(SubSeq(e.serial, k, Len(e.serial)), CancelMsg) \o CancelParallel(e.par, e.pst),
                       !.pst = [j \in 1..Len(e.par) |-> IF e.pst[j] \in {"ok", "err"} THEN e.pst[j] ELSE "cancelled"]]
        ELSE IF k <= Len(e.serial)
        THEN [e EXCEPT !.phase = "serial_wait", !.si = k, !.pst = Started(@)]
        ELSE IF e.par # <<>>
        THEN [e EXCEPT !.phase = "gather", !.si = k, !.pst = Started(@)]
        ELSE [e EXCEPT !.phase = "done", !.si = k, !.ret = FALSE]

\* the handlers that a step of the node starts
StartedBy(e) ==
    (IF e.phase = "serial_wait" THEN {e.serial[e.si].id} ELSE {})
    \cup (IF e.phase \in {"serial_wait", "gather"} THEN IdsOf(e.par) ELSE {})

\* node entry with the cancel flag set
ExecuteToolsCanceled ==
    /\ pc = "tools"
    /\ et.phase = "entry"
    /\ _user_canceled
    /\ et' = [et EXCEPT !.phase = "done", !.ret = TRUE,
                        !.msgs = ProcessInterruptWhenToolExecute(TRUE, tool_calls, messages)]
    /\ UNCHANGED <<stateVars, _user_canceled, task_tool_user_canceled, user_input_queue, event_queue, tn,
                   permVars, extVars, ghostVars>>

\* node entry with a call that names no registered tool: the 'no such tool'
\* message is appended to the node's copy of the state, then tool.is_parallelizable
\* is read on None and the AttributeError leaves the node: its writes are lost,
\* the graph execution ends with the error and the checkpoint keeps the node
\* as the next one to run
ExecuteToolsRaises ==
    /\ pc = "tools"
    /\ et.phase = "entry"
    /\ ~_user_canceled
    /\ UnknownCalls(tool_calls) # <<>>
    /\ et' = [et EXCEPT !.phase = "raised",
                        !.msgs = <<ToolMessage("no_such_tool", UnknownCalls(tool_calls)[1].id)>>]
    /\ UNCHANGED <<stateVars, _user_canceled, task_tool_user_canceled, user_input_queue, event_queue, tn,
                   permVars, extVars, ghostVars>>

\* node entry: the calls are classified and the node runs to its first await
ExecuteToolsStart ==
    LET e0 == [et EXCEPT !.serial = SequentialCalls(tool_calls), !.par = ParallelCalls(tool_calls),
                         !.pst = [j \in 1..Len(ParallelCalls(tool_calls)) |-> "created"]]
        e1 == ContinueSerial(e0, 1, FALSE)
    IN  /\ pc = "tools"
        /\ et.phase = "entry"
        /\ ~_user_canceled
        /\ UnknownCalls(tool_calls) = <<>>
        /\ et' = e1
        /\ executed' = executed \cup StartedBy(e1)
        /\ UNCHANGED <<stateVars, _user_canceled, task_tool_user_canceled, user_input_queue, event_queue, tn,
                       permVars, extVars, model_calls, turn_count, run_count, turn, cp, cancel_latched>>

\* the awaited serial handler returns or raises; the loop goes on
SerialToolReturns(outcome) ==
    LET e0 == [et EXCEPT !.msgs = Append(@, ToolMessage(outcome, et.serial[et.si].id))]
        e1 == ContinueSerial(e0, et.si + 1, _user_canceled)
    IN  /\ pc = "tools"
        /\ et.phase = "serial_wait"
        /\ et' = e1
        /\ executed' = executed \cup StartedBy(e1)
        /\ UNCHANGED <<stateVars, _user_canceled, task_tool_user_canceled, user_input_queue, event_queue, tn,
                       permVars, extVars, model_calls, turn_count, run_count, turn, cp, cancel_latched>>

\* a parallel handler finishes while the node awaits
ParallelToolCompletes(j, outcome) ==
    /\ pc = "tools"
    /\ et.phase \in {"serial_wait", "gather"}
    /\ j \in 1..Len(et.par)
    /\ et.pst[j] = "run"
    /\ et' = [et EXCEPT !.pst[j] = outcome]
    /\ UNCHANGED <<stateVars, _user_canceled, task_tool_user_canceled, user_input_queue, event_queue, tn,
                   permVars, extVars, ghostVars>>

\* asyncio.gather returns: every parallel handler has finished
GatherReturns ==
    /\ pc = "tools"
    /\ et.phase = "gather"
    /\ \A j \in 1..Len(et.par) : et.pst[j] \in {"ok", "err"}
    /\ et' = [et EXCEPT !.phase = "done", !.ret = _user_canceled, !.msgs = @ \o GatherResults(et.par, et.pst)]
    /\ UNCHANGED <<stateVars, _user_canceled, task_tool_user_canceled, user_input_queue, event_queue, tn,
                   permVars, extVars, ghostVars>>

(***************************************************************************)
(* Task slots                                                              *)
(***************************************************************************)
\* task_tool_node(index) entered with the cancel flag set
TaskNodeCanceled(i) ==
    /\ pc = "tools"
    /\ tn[i].phase = "entry"
    /\ _user_canceled
    /\ tn' = [tn EXCEPT ![i] = [phase |-> "done", ret |-> TRUE,
                                msgs |-> ProcessInterruptWhenToolExecute(TRUE, tool_calls, messages)]]
    /\ UNCHANGED <<stateVars, _user_canceled, task_tool_user_canceled, user_input_queue, event_queue, et,
                   permVars, extVars, ghostVars>>

\* task_tool_node(index): TaskTool._arun starts the child for the index-th Task call
TaskNodeStart(i) ==
    /\ pc = "tools"
    /\ tn[i].phase = "entry"
    /\ ~_user_canceled
    /\ tn' = [tn EXCEPT ![i].phase = "child"]
    /\ task_tool_user_canceled' = FALSE
    /\ executed' = executed \cup {TaskCalls(tool_calls)[i + 1].id}
    /\ UNCHANGED <<stateVars, _user_canceled, user_input_queue, event_queue, et,
                   permVars, extVars, model_calls, turn_count, run_count, turn, cp, cancel_latched>>

\* TaskTool._arun returns (or raises): one Tool message for the slot's call
TaskToolReturns(i, outcome) ==
    /\ pc = "tools"
    /\ tn[i].phase = "child"
    /\ outcome \in {"result", "task_failed", "tool_failed"}
    /\ tn' = [tn EXCEPT ![i] = [phase |-> "done", ret |-> _user_canceled,
                                msgs |-> <<ToolMessage(IF outcome # "tool_failed" /\ task_tool_user_canceled
                                                        THEN "task_user_canceled" ELSE outcome,
                                                        TaskCalls(tool_calls)[i + 1].id)>>]]
    /\ UNCHANGED <<stateVars, _user_canceled, task_tool_user_canceled, user_input_queue, event_queue, et,
                   permVars, extVars, ghostVars>>

(***************************************************************************)
(* End of the step: the nodes' writes are merged and Reason is next        *)
(***************************************************************************)
ActiveSlots == {i \in TaskSlots : tn[i].phase # "none"}

LastSlot == CHOOSE i \in ActiveSlots : \A j \in ActiveSlots : j <= i

RECURSIVE SlotMsgs(_)
SlotMsgs(i) == IF i \notin TaskSlots THEN <<>> ELSE tn[i].msgs \o SlotMsgs(i + 1)

SuperstepEnd ==
    /\ pc = "tools"
    /\ et.phase \in {"none", "done"}
    /\ \A i \in TaskSlots : tn[i].phase \in {"none", "done"}
    /\ messages' = messages \o et.msgs \o SlotMsgs(0)
    /\ user_canceled' = IF ActiveSlots # {} THEN tn[LastSlot].ret ELSE et.ret
    /\ pc' = "reason"
    /\ et' = EtIdle
    /\ tn' = [i \in TaskSlots |-> NoNode]
    /\ UNCHANGED <<tool_calls, current_iteration, resume_values, _user_canceled, task_tool_user_canceled,
                   user_input_queue, event_queue, permVars, extVars, ghostVars>>

(***************************************************************************)
(* Specification of the runner                                             *)
(***************************************************************************)
Next ==
    \/ \E v \in ResumeValues : RunStreamResume(v)
    \/ RunStreamQueued
    \/ RunStreamFresh
    \/ PublishUserCancel
    \/ DispatchUserCancel
    \/ ReasonCanceled
    \/ \E resp \in Turns \cup {<<>>} : ReasonInvoke(resp)
    \/ CheckPermissionsCanceled
    \/ CheckPermissionsInterrupt
    \/ CheckPermissionsRefused
    \/ CheckPermissionsRoute
    \/ ExecuteToolsCanceled
    \/ ExecuteToolsStart
    \/ ExecuteToolsRaises
    \/ \E o \in {"result", "tool_failed"} : SerialToolReturns(o)
    \/ \E j \in 1..3, o \in {"ok", "err"} : ParallelToolCompletes(j, o)
    \/ GatherReturns
    \/ \E i \in TaskSlots : TaskNodeCanceled(i)
    \/ \E i \in TaskSlots : TaskNodeStart(i)
    \/ \E i \in TaskSlots, o \in {"result", "task_failed", "tool_failed"} : TaskToolReturns(i, o)
    \/ SuperstepEnd

Spec == Init /\ [][Next]_vars

TypeOK ==
    /\ pc \in {"END", "reason", "check_permissions", "interrupted", "tools"}
    /\ _user_canceled \in BOOLEAN
    /\ event_queue \in {0, 1}
    /\ Len(user_input_queue) <= MaxQueue


(***************************************************************************)
(* Specification of the permission engine alone: any sequence of its       *)
(* operations, under each configured rule set                              *)
(***************************************************************************)
agentVars == <<messages, tool_calls, user_canceled, current_iteration, pc, resume_values, _user_canceled,
               task_tool_user_canceled, user_input_queue, event_queue, et, tn,
               executed, model_calls, turn_count, run_count, turn, cp, cancel_latched>>

Choices == UserPermissionChoice \cup {UNKNOWN_CHOICE}

KeyOf(name) == GeneratePermissionKey(Inv(name))

PermInit ==
    /\ AgentInit
    /\ ExtInit
    /\ session_cache = {}
    /\ config \in Configs
    /\ history = NoOp
    /\ pending = {}
    /\ granted = {}

\* check_permission(tool_name, tool_args, working_directory)
PermCheck(name) ==
    LET decision == check_permission(session_cache, config, Inv(name))
    IN  /\ decision = ASK => (name \in pending \/ Cardinality(pending) < MaxPending)
        /\ history' = [op |-> "check", inv |-> name, choice |-> "none", result |-> decision]
        /\ pending' = IF decision = ASK THEN pending \cup {name} ELSE pending
        /\ UNCHANGED <<session_cache, config, granted, agentVars, extVars>>

\* apply_user_choice(request, choice) for a request that was answered ASK
PermApply(name, choice) ==
    LET r == apply_user_choice(session_cache, Inv(name), choice)
    IN  /\ name \in pending
        /\ session_cache' = r.cache
        /\ history' = [op |-> "apply", inv |-> name, choice |-> choice, result |-> r.allowed]
        /\ pending' = pending \ {name}
        /\ granted' = IF choice = ALLOW_SESSION THEN granted \cup {KeyOf(name)} ELSE granted
        /\ UNCHANGED <<config, agentVars, extVars>>

\* clear_session_cache()
PermClear ==
    /\ session_cache' = clear_session_cache(session_cache)
    /\ history' = [op |-> "clear", inv |-> "none", choice |-> "none", result |-> "none"]
    /\ granted' = {}
    /\ UNCHANGED <<config, pending, agentVars, extVars>>

\* ClearCommand.execute -> AIProgrammingAssistant.reset_conversation: replaces
\* the assistant's own state object; the permission manager is not touched
reset_conversation(cache) == cache

\* the /clear command
ResetConversation ==
    /\ session_cache' = reset_conversation(session_cache)
    /\ history' = [op |-> "reset", inv |-> "none", choice |-> "none", result |-> "none"]
    /\ UNCHANGED <<config, pending, granted, agentVars, extVars>>

PermNext ==
    \/ \E name \in InvNames : PermCheck(name)
    \/ \E name \in InvNames, choice \in Choices : PermApply(name, choice)
    \/ PermClear
    \/ ResetConversation

SpecPerm == PermInit /\ [][PermNext]_vars


(***************************************************************************)
(* Properties of the permission engine                                     *)
(***************************************************************************)
DenyMatches(name) == MatchesAnyPattern(Inv(name), config.deny)

AllowMatches(name) == MatchesAnyPattern(Inv(name), config.allow)

\* C8: after apply_user_choice(request, ALLOW_SESSION), every check of a
\* request with the same permission_key returns ALLOW and asks for no choice,
\* until the cache is cleared; the decision for every request with another
\* key is the same after the grant as before it.
C8_SessionGrantAllows ==
    [][ /\ (history'.op = "check" /\ KeyOf(history'.inv) \in granted)
            => (history'.result = ALLOW /\ pending' = pending)
        /\ (history'.op = "apply" /\ history'.choice = ALLOW_SESSION)
            => \A n \in InvNames : KeyOf(n) # KeyOf(history'.inv)
                    => check_permission(session_cache', config', Inv(n)) = check_permission(session_cache, config, Inv(n))
      ]_vars

\* a check of a granted key that the rules alone would not have allowed
C8_Witness ==
    /\ history.op = "check"
    /\ KeyOf(history.inv) \in granted
    /\ history.result = ALLOW
    /\ check_permission({}, config, Inv(history.inv)) # ALLOW

\* C9: check_permission decides by priority: session-cache hit gives ALLOW,
\* else a matching deny rule gives DENY, else a matching allow rule gives
\* ALLOW, else ASK.
C9_PriorityOrder ==
    history.op = "check" =>
        LET hit == KeyOf(history.inv) \in session_cache
            d == DenyMatches(history.inv)
            a == AllowMatches(history.inv)
        IN  /\ hit => history.result = ALLOW
            /\ (~hit /\ d) => history.result = DENY
            /\ (~hit /\ ~d /\ a) => history.result = ALLOW
            /\ (~hit /\ ~d /\ ~a) => history.result = ASK

\* a check where a deny rule and an allow rule both match and no key is cached
C9_Witness ==
    /\ history.op = "check"
    /\ KeyOf(history.inv) \notin session_cache
    /\ DenyMatches(history.inv)
    /\ AllowMatches(history.inv)
    /\ history.result = DENY

\* C10: the cache changes only when apply_user_choice is given ALLOW_SESSION
\* (it then gains exactly the request's key) or when it is cleared; so it
\* holds only keys granted for the session.
C10_CacheOnlyBySessionGrant ==
    [][ /\ session_cache' # session_cache
            => (history'.op = "clear" \/ (history'.op = "apply" /\ history'.choice = ALLOW_SESSION))
        /\ (history'.op = "apply" /\ history'.choice = ALLOW_SESSION)
            => session_cache' = session_cache \cup {KeyOf(history'.inv)}
        /\ history'.op = "check" => session_cache' = session_cache
        /\ session_cache' \subseteq granted'
      ]_vars

\* a one-time permission given while another key is cached
C10_Witness ==
    /\ history.op = "apply"
    /\ history.choice = ALLOW_ONCE
    /\ history.result = TRUE
    /\ session_cache # {}
    /\ KeyOf(history.inv) \notin session_cache


(***************************************************************************)
(* Properties of the runner                                                *)
(***************************************************************************)
ToolMessagesFor(id) == {i \in 1..Len(messages) : messages[i].type = "tool" /\ messages[i].tool_call_id = id}

AnsweredOnce(id) == Cardinality(ToolMessagesFor(id)) = 1

\* the calls of the turn that the engine decided ASK when the turn began
TurnAsks == LET IsAsk(c) == check_permission(turn.cache0, config, Inv(c.inv)) = ASK IN SelectSeq(turn.calls, IsAsk)

CallId(c) == c.id

\* C1: for each Assistant message with tool_calls ids S, once the next
\* Assistant message is in the log or the run is Finished, the log holds
\* exactly one Tool message per id of S.
C1_OneToolMessagePerCall ==
    \A p \in 1..Len(messages) :
        (messages[p].type = "ai" /\ (pc = "END" \/ \E q \in (p + 1)..Len(messages) : messages[q].type = "ai"))
            => \A k \in 1..Len(messages[p].tool_calls) : AnsweredOnce(messages[p].tool_calls[k])

\* C2: when CheckPermissions completes, every call decided ASK was shown to
\* the user in exactly one interrupt, in tool-call order, and is allowed
\* exactly when the answer given to its own interrupt was not DENY.
C2_AskRaisesOwnInterrupt ==
    cp.done =>
        /\ turn.shown = MapSeq(TurnAsks, CallId)
        /\ Len(resume_values) = Len(TurnAsks)
        /\ \A k \in 1..Len(TurnAsks) :
               (MapUserChoice(resume_values[k]) # DENY) <=> (TurnAsks[k].id \in IdsOf(cp.allowed))

\* C3: a call that the completing execution of CheckPermissions got DENY
\* for is never started and has exactly one Tool message, 'permission
\* denied'; every call of the turn is dispositioned by that execution, and
\* absent a cancel the allowed ones have been started when the step ends.
C3_DeniedNeverExecuted ==
    cp.done =>
        /\ \A id \in cp.denied :
               /\ id \notin executed
               /\ AnsweredOnce(id)
               /\ \A i \in ToolMessagesFor(id) : messages[i].content = "permission_denied"
        /\ \A k \in 1..Len(turn.calls) :
               \/ turn.calls[k].id \in cp.denied \cup IdsOf(cp.allowed)
               \/ \E j \in 1..Len(cp.applied) : cp.applied[j].id = turn.calls[k].id
               \/ ~Inv(turn.calls[k].inv).display_ok
        /\ (pc = "reason" /\ ~cp.refuse /\ ~cancel_latched) => IdsOf(cp.allowed) \subseteq executed

\* a denied call answered while another call of the same turn was started
C3_Witness ==
    /\ cp.done
    /\ pc = "reason"
    /\ cp.denied # {}
    /\ IdsOf(cp.allowed) # {}
    /\ IdsOf(cp.allowed) \subseteq executed
    /\ \A id \in cp.denied : AnsweredOnce(id) /\ id \notin executed

\* C4: once USER_CANCEL was delivered to the running agent, Reason makes no
\* model call and every node transition leads towards Finished (the tools
\* step to Reason, every other node to the end).
C4_CancelFinishes ==
    [][(cancel_latched /\ pc # "END")
          => /\ model_calls' = model_calls
             /\ pc' \in {pc, IF pc = "tools" THEN "reason" ELSE "END"}]_vars

\* C5: once USER_CANCEL set the flag while the run was active, the flag
\* stays set until the run is Finished, and no handler is started and no
\* model call is made meanwhile.
C5_CancelLatching ==
    [][(cancel_latched /\ pc # "END")
          => /\ _user_canceled /\ _user_canceled'
             /\ executed' = executed
             /\ model_calls' \in {model_calls}]_vars

\* C6: after the user answered an interrupt of the turn with DENY, no call
\* of the turn is started, the run goes to Finished without Reason, with
\* USER_CANCEL published and every call answered by one Tool message.
C6_UserDenyCancels ==
    turn.user_denied =>
        /\ IdsOf(turn.calls) \cap executed = {}
        /\ pc \in {"check_permissions", "interrupted", "END"}
        /\ pc = "END" => /\ turn.published \/ turn.entry_cancel
                         /\ user_canceled
                         /\ \A id \in IdsOf(turn.calls) : AnsweredOnce(id)

\* the answer the user gave to the interrupt shown for a call
AnswerFor(id) == resume_values[CHOOSE k \in 1..Len(turn.shown) : turn.shown[k] = id]

\* the same execution without suspension: the calls are checked once and
\* each interrupt returns the answer given for its call
Unsuspended ==
    LET Shown(c) == Inv(c.inv).display_ok
        asks == SelectSeq(TurnAsks, Shown)
        answers == [k \in 1..Len(asks) |-> AnswerFor(asks[k].id)]
    IN  CheckPermissionsPass(turn.cache0, config, turn.calls, answers, SubSeq(messages, 1, turn.ai_index))

\* C7: when CheckPermissions completes after one or more resumes in which
\* every ASK call was shown and answered, its messages, its allowed calls
\* and the session cache are those of the execution without suspension.
C7_ResumeEquivalent ==
    (/\ cp.done
     /\ \A k \in 1..Len(TurnAsks) : Inv(TurnAsks[k].inv).display_ok => \E j \in 1..Len(turn.shown) : turn.shown[j] = TurnAsks[k].id
     /\ Len(resume_values) = Len(turn.shown))
        => \E u \in {Unsuspended} :
               /\ cp.msgs = u.msgs
               /\ cp.allowed = u.allowed
               /\ cp.cache = u.cache
               /\ cp.refuse = u.refuse


\* C11: after a session reset (the /clear command) the session cache is empty,
\* so every request is decided as with an empty cache and a key granted for
\* the session before the reset is asked again.
C11_ResetClearsCache ==
    history.op = "reset" =>
        /\ session_cache = {}
        /\ \A n \in InvNames :
              check_permission(session_cache, config, Inv(n)) = check_permission({}, config, Inv(n))

\* C12: with the pattern "*" in the deny list, check_permission returns DENY
\* for every invocation whose permission_key is not in the session cache.
C12_DenyStarDeniesAll ==
    (/\ history.op = "check"
     /\ \E i \in 1..Len(config.deny) : config.deny[i] = RuleTool("*")
     /\ KeyOf(history.inv) \notin session_cache)
        => history.result = DENY

\* C13: a request is classified from the snapshot by priority. A step that
\* delivers a resume value is taken only with a pending interrupt and seeds no
\* User message; a step that queues the input is taken only with no pending
\* interrupt and a runnable node, appends the input to the queue, yields
\* exactly one user_input_queued event and leaves the graph state alone; a
\* step that starts a run is taken only with neither, and seeds exactly one
\* User message.
C13_RequestClassification ==
    [][ /\ Len(resume_values') > Len(resume_values)
            => /\ SnapshotInterrupts # {}
               /\ messages' = messages
               /\ user_input_queue' = user_input_queue
               /\ run_stream_yields(get_graph_status, resume_values'[Len(resume_values')]) = <<>>
        /\ Len(user_input_queue') > Len(user_input_queue)
            => /\ SnapshotInterrupts = {}
               /\ SnapshotNext # {}
               /\ user_input_queue' = Append(user_input_queue, "text")
               /\ run_stream_yields(get_graph_status, "text") = <<[type |-> "user_input_queued", content |-> "text"]>>
               /\ UNCHANGED <<stateVars, nodeVars, run_count, model_calls>>
        /\ run_count' > run_count
            => /\ SnapshotInterrupts = {}
               /\ SnapshotNext = {}
               /\ messages' = Append(messages, HumanMessage("text"))
               /\ user_input_queue' = user_input_queue
               /\ run_stream_yields(get_graph_status, "text") = <<>>
      ]_vars

\* a fresh run that took a queued input while busy and was then resumed from
\* an interrupt with that input still queued
C13_Witness ==
    /\ run_count = 1
    /\ user_input_queue # <<>>
    /\ resume_values # <<>>
    /\ pc = "check_permissions"

\* C14: at each Reason entry every queued input is taken out of the queue and
\* appended, in queue order, as a User message of the persisted message log
\* (before the Assistant message of that entry, so it is processed in the run).
C14_QueuedInputsBecomeMessages ==
    [][ (pc = "reason" /\ pc' # "reason" /\ user_input_queue # <<>>)
            => /\ user_input_queue' = <<>>
               /\ Len(messages') >= Len(messages) + Len(user_input_queue)
               /\ \A k \in 1..Len(user_input_queue) :
                      messages'[Len(messages) + k] = HumanMessage(user_input_queue[k])
      ]_vars

\* the calls of the running batch whose handler has completed, with a result
\* or with an exception
HandlerCompleted(e) ==
    {e.par[j].id : j \in {i \in 1..Len(e.par) : e.pst[i] \in {"ok", "err"}}}
    \cup {e.msgs[k].tool_call_id : k \in {i \in 1..Len(e.msgs) : e.msgs[i].content \in {"result", "tool_failed"}}}

\* C18: once the cancel flag is true while ExecuteTools works on a batch, no
\* further handler of the batch completes with an outcome of its own: the
\* calls not completed by then are canceled, and when the node ends each of
\* them is answered 'user canceled' under its own call id while the completed
\* calls keep their results.
C18_CancelMidBatch ==
    [][ (pc = "tools" /\ et.phase \in {"serial_wait", "gather"} /\ _user_canceled)
            => /\ HandlerCompleted(et') \subseteq HandlerCompleted(et)
               /\ et'.phase = "done"
                    => \A c \in IdsOf(et.serial) \cup IdsOf(et.par) :
                          c \notin HandlerCompleted(et)
                            => \E k \in 1..Len(et'.msgs) : et'.msgs[k] = ToolMessage("user_canceled", c)
      ]_vars

\* C19: a failure while dispatching a tool call - a handler's exception or a
\* call naming an unregistered tool - never ends the node with an error: the
\* node returns, with exactly one Tool message for each call it dispatched.
C19_DispatchFailuresBecomeMessages ==
    pc = "tools" =>
        /\ et.phase # "raised"
        /\ (et.phase = "done" /\ ~et.ret)
              => \A c \in IdsOf(NonTaskCalls(tool_calls)) :
                    Cardinality({k \in 1..Len(et.msgs) : et.msgs[k].tool_call_id = c}) = 1

(***************************************************************************)
(* Requests on one thread: run_stream at the grain of its awaits, the      *)
(* compensation loop and the life of a graph execution.  The nodes are     *)
(* reduced to what they do to the input queue and to the checkpoint's next *)
(* node; the message log is left out.                                      *)
(***************************************************************************)
threadFrame == <<messages, tool_calls, user_canceled, current_iteration, resume_values, task_tool_user_canceled,
                 event_queue, nodeVars, permVars, executed, model_calls, turn_count, run_count, cp, cancel_latched,
                 queueVars, taskVars, childVars, limitVars, busVars, freshVars, todoVars, agentFileVars, slotVars, streamVars, compactVars, windowVars, getVars>>

ThreadInit ==
    /\ AgentInit
    /\ ExtInit
    /\ session_cache = {}
    /\ config = AgentConfig
    /\ history = NoOp
    /\ pending = {}
    /\ granted = {}

\* InputWindow.handle_enter, ChoiceWindow: a task running process_stream_input
\* is created for the text or the choice
HandleEnter(i) ==
    /\ i # 0
    /\ requests[i] = "none"
    /\ requests' = [requests EXCEPT ![i] = "called"]
    /\ UNCHANGED <<threadFrame, pc, user_input_queue, _user_canceled, turn, executions, comp>>

\* run_stream up to its first await: the cancel flag is reset and the status
\* of the thread is read from the checkpoint
ReadGraphStatus(i) ==
    /\ requests[i] = "called"
    /\ _user_canceled' = FALSE
    /\ requests' = [requests EXCEPT ![i] = get_graph_status]
    /\ UNCHANGED <<threadFrame, pc, user_input_queue, turn, executions, comp>>

\* the call of run_stream in slot i has ended or has handed over to astream
Returned(i, streaming) ==
    /\ requests' = [requests EXCEPT ![i] = "none"]
    /\ comp' = IF i # 0 THEN comp ELSE IF streaming THEN "streaming" ELSE "sleep"

\* the branch for the status Interrupted: astream(Command(resume=input))
BranchInterrupted(i) ==
    /\ requests[i] = "Interrupted"
    /\ executions < MaxExecutions
    /\ executions' = executions + 1
    /\ pc' = IF pc = "interrupted" THEN "check_permissions" ELSE pc
    /\ Returned(i, TRUE)
    /\ UNCHANGED <<threadFrame, user_input_queue, _user_canceled, turn>>

\* the branch for the status Running: safe_put(input) and the queued event
\* (the users' requests fill the queue up to MaxQueue; the compensation
\* loop's own request, made after it has emptied the queue, always has room)
BranchRunning(i) ==
    /\ requests[i] = "Running"
    /\ Len(user_input_queue) < MaxQueue + (IF i = 0 THEN 1 ELSE 0)
    /\ user_input_queue' = Append(user_input_queue, "text")
    /\ Returned(i, FALSE)
    /\ UNCHANGED <<threadFrame, pc, _user_canceled, turn, executions>>

\* the branch for the status Finished: astream(state) from the entry point
BranchFinished(i) ==
    /\ requests[i] = "Finished"
    /\ executions < MaxExecutions
    /\ executions' = executions + 1
    /\ pc' = "reason"
    /\ turn' = NoTurn
    /\ Returned(i, TRUE)
    /\ UNCHANGED <<threadFrame, user_input_queue, _user_canceled>>

\* _reason_node: the queue is popped; then the node ends the run (cancel flag
\* set, or an answer without tool calls), goes on to check_permissions, or
\* the model call raises and the execution ends with the checkpoint unchanged
ThreadReason(outcome) ==
    /\ pc = "reason"
    /\ executions > 0
    /\ _user_canceled => outcome = "end"
    /\ user_input_queue' = <<>>
    /\ pc' = IF outcome = "end" THEN "END" ELSE IF outcome = "continue" THEN "check_permissions" ELSE pc
    /\ executions' = IF outcome = "continue" THEN executions ELSE executions - 1
    /\ turn' = IF outcome = "error" THEN turn ELSE NoTurn
    /\ UNCHANGED <<threadFrame, _user_canceled, requests, comp>>

\* _check_permissions_node: it suspends in interrupt(), routes to the tool
\* nodes, or ends the run (cancel flag set or a choice was DENY)
ThreadCheckPermissions(outcome) ==
    /\ pc = "check_permissions"
    /\ executions > 0
    /\ _user_canceled => outcome = "end"
    /\ outcome = "interrupt" => turn.shown = <<>>
    /\ pc' = IF outcome = "interrupt" THEN "interrupted" ELSE IF outcome = "execute" THEN "tools" ELSE "END"
    /\ executions' = IF outcome = "execute" THEN executions ELSE executions - 1
    /\ turn' = IF outcome = "interrupt" THEN [turn EXCEPT !.shown = Append(@, 11)] ELSE turn
    /\ UNCHANGED <<threadFrame, user_input_queue, _user_canceled, requests, comp>>

\* execute_tools and the task nodes: the step ends and Reason is next, or a
\* node raises and the execution ends with the checkpoint unchanged
ThreadExecuteTools(outcome) ==
    /\ pc = "tools"
    /\ executions > 0
    /\ pc' = IF outcome = "done" THEN "reason" ELSE pc
    /\ executions' = IF outcome = "done" THEN executions ELSE executions - 1
    /\ UNCHANGED <<threadFrame, user_input_queue, _user_canceled, turn, requests, comp>>

\* an execution that finds the thread ended or suspended by another
\* execution has no node to run: its stream ends
ExecutionEnds ==
    /\ pc \in {"END", "interrupted"}
    /\ executions > 0
    /\ executions' = executions - 1
    /\ UNCHANGED <<threadFrame, pc, user_input_queue, _user_canceled, turn, requests, comp>>

\* USER_CANCEL: ReActAgent._process_user_cancel sets the flag and
\* OutputWindow._process_user_cancel pops the queue into the input box
ThreadUserCancel ==
    /\ ~_user_canceled \/ user_input_queue # <<>>
    /\ _user_canceled' = TRUE
    /\ user_input_queue' = <<>>
    /\ UNCHANGED <<threadFrame, pc, turn, executions, requests, comp>>

\* compensation_pending_input_loop wakes up and reads the status
CompensationPoll ==
    /\ comp = "sleep"
    /\ comp' = IF get_graph_status = "Finished" THEN "finished" ELSE "sleep"
    /\ UNCHANGED <<threadFrame, pc, user_input_queue, _user_canceled, turn, executions, requests>>

\* the status was Finished: pop_all, and the popped inputs are re-submitted
\* by the loop itself, which awaits process_stream_input
CompensationPop ==
    /\ comp = "finished"
    /\ user_input_queue' = <<>>
    /\ comp' = IF user_input_queue # <<>> THEN "resubmit" ELSE "sleep"
    /\ requests' = IF user_input_queue # <<>> THEN [requests EXCEPT ![0] = "called"] ELSE requests
    /\ UNCHANGED <<threadFrame, pc, _user_canceled, turn, executions>>

\* the stream the loop awaits has ended
CompensationStreamEnds ==
    /\ comp = "streaming"
    /\ executions = 0
    /\ comp' = "sleep"
    /\ UNCHANGED <<threadFrame, pc, user_input_queue, _user_canceled, turn, executions, requests>>

RunStreamStep(i) ==
    \/ ReadGraphStatus(i)
    \/ BranchInterrupted(i)
    \/ BranchRunning(i)
    \/ BranchFinished(i)

GraphStep ==
    \/ \E o \in {"end", "continue", "error"} : ThreadReason(o)
    \/ \E o \in {"interrupt", "execute", "end"} : ThreadCheckPermissions(o)
    \/ \E o \in {"done", "error"} : ThreadExecuteTools(o)
    \/ ExecutionEnds

CompensationStep ==
    \/ CompensationPoll
    \/ CompensationPop
    \/ CompensationStreamEnds
    \/ RunStreamStep(0)

ThreadNext ==
    \/ \E i \in Requests : HandleEnter(i)
    \/ \E i \in Requests : ReadGraphStatus(i)
    \/ \E i \in Requests : BranchInterrupted(i)
    \/ \E i \in Requests : BranchRunning(i)
    \/ \E i \in Requests : BranchFinished(i)
    \/ \E o \in {"end", "continue", "error"} : ThreadReason(o)
    \/ \E o \in {"interrupt", "execute", "end"} : ThreadCheckPermissions(o)
    \/ \E o \in {"done", "error"} : ThreadExecuteTools(o)
    \/ ExecutionEnds
    \/ ThreadUserCancel
    \/ CompensationPoll
    \/ CompensationPop
    \/ CompensationStreamEnds

SpecThread == ThreadInit /\ [][ThreadNext]_vars

\* the event loop runs every task that is ready: the nodes of an active
\* execution, the compensation loop and the loop's own call of run_stream
FairSpecThread ==
    /\ ThreadInit
    /\ [][ThreadNext]_vars
    /\ WF_vars(GraphStep)
    /\ WF_vars(CompensationStep)

\* C15: an input accepted into the queue is eventually taken out of it.
C15_NoDeadLetters == (user_input_queue # <<>>) ~> (user_input_queue = <<>>)

\* C17: at most one graph execution is active on the thread at any time.
C17_OneExecutionPerThread == executions <= 1

(***************************************************************************)
(* The input queue (utils/collection.py AsyncBatchQueue) under concurrent  *)
(* callers.  Items are numbered in the order in which they are appended;   *)
(* a caller of safe_put logs the items it has put, a caller of pop_all or  *)
(* pop_batch logs the non-empty lists it has returned.                     *)
(***************************************************************************)
queueFrame == <<stateVars, _user_canceled, task_tool_user_canceled, event_queue, nodeVars, permVars, ghostVars,
                threadVars, taskVars, childVars, limitVars, busVars, freshVars, todoVars, agentFileVars, slotVars, streamVars, compactVars, windowVars, getVars>>

Putters == {"put1", "put2"}

\* the number of items appended so far
PutCount == Len(callers["put1"].returned) + Len(callers["put2"].returned)

\* asyncio.Lock.locked() that never reports a holder
Locked_never(l) == FALSE

\* asyncio.Lock.locked()
Locked(l) == l # "free"

\* a coroutine calls safe_put(item), pop_all() or pop_batch(max_items)
\* (max_items = 0 stands for None)
QueueCall(c, n) ==
    /\ callers[c].at = "idle"
    /\ c \in Putters => PutCount + Cardinality({p \in Putters : callers[p].at # "idle"}) < MaxItems
    /\ callers' = [callers EXCEPT ![c].at = "wait", ![c].max_items = IF c = "pop_batch" THEN n ELSE 0]
    /\ UNCHANGED <<queueFrame, user_input_queue, lock>>

\* async with self._lock: entered once the lock is not held
Acquire(c) ==
    /\ callers[c].at = "wait"
    /\ ~Locked(lock)
    /\ lock' = c
    /\ callers' = [callers EXCEPT ![c].at = "in"]
    /\ UNCHANGED <<queueFrame, user_input_queue>>

\* safe_put: super().put(item) appends to the deque
SafePut(c) ==
    /\ c \in Putters
    /\ callers[c].at = "in"
    /\ user_input_queue' = Append(user_input_queue, PutCount + 1)
    /\ callers' = [callers EXCEPT ![c].at = "exit", ![c].returned = Append(@, PutCount + 1)]
    /\ UNCHANGED <<queueFrame, lock>>

\* pop_all: items = list(self._queue)
PopAllCopy ==
    /\ callers["pop_all"].at = "in"
    /\ callers' = [callers EXCEPT !["pop_all"].at = "copied", !["pop_all"].items = user_input_queue]
    /\ UNCHANGED <<queueFrame, user_input_queue, lock>>

\* pop_all: self._queue.clear()
PopAllClear ==
    /\ callers["pop_all"].at = "copied"
    /\ user_input_queue' = <<>>
    /\ callers' = [callers EXCEPT !["pop_all"].at = "exit"]
    /\ UNCHANGED <<queueFrame, lock>>

\* pop_batch: one turn of its while loop
PopBatchStep ==
    LET me == callers["pop_batch"]
        more == user_input_queue # <<>> /\ (me.max_items = 0 \/ Len(me.items) < me.max_items)
    IN  /\ me.at = "in"
        /\ user_input_queue' = IF more THEN Tail(user_input_queue) ELSE user_input_queue
        /\ callers' = [callers EXCEPT !["pop_batch"].at = IF more THEN "in" ELSE "exit",
                                      !["pop_batch"].items = IF more THEN Append(@, Head(user_input_queue)) ELSE @]
        /\ UNCHANGED <<queueFrame, lock>>

\* the lock is released and the call returns (a pop returns its items)
Release(c) ==
    /\ callers[c].at = "exit"
    /\ lock' = IF lock = c THEN "free" ELSE lock
    /\ callers' = [callers EXCEPT ![c].at = "idle", ![c].items = <<>>, ![c].max_items = 0,
                                  ![c].returned = IF c \in Putters \/ callers[c].items = <<>>
                                                  THEN @ ELSE Append(@, callers[c].items)]
    /\ UNCHANGED <<queueFrame, user_input_queue>>

QueueInit ==
    /\ AgentInit
    /\ ExtInit
    /\ session_cache = {}
    /\ config = AgentConfig
    /\ history = NoOp
    /\ pending = {}
    /\ granted = {}

QueueNext ==
    \/ \E c \in Callers, n \in 0..2 : QueueCall(c, n)
    \/ \E c \in Callers : Acquire(c)
    \/ \E c \in Callers : SafePut(c)
    \/ PopAllCopy
    \/ PopAllClear
    \/ PopBatchStep
    \/ \E c \in Callers : Release(c)

SpecQueue == QueueInit /\ [][QueueNext]_vars

\* the items a pop has taken out of the queue and not yet returned
Held(c) ==
    IF c = "pop_batch" \/ callers[c].at = "exit" THEN callers[c].items ELSE <<>>

\* every item that left the queue, then the items still in it
Accounted ==
    Flatten(callers["pop_all"].returned) \o Held("pop_all")
    \o Flatten(callers["pop_batch"].returned) \o Held("pop_batch")
    \o user_input_queue

Increasing(s) == \A i, j \in 1..Len(s) : i < j => s[i] < s[j]

\* C16: whatever the interleaving of safe_put with pop_all and pop_batch,
\* every item put is in the queue or in exactly one pop's result, never in
\* two and never lost, and each pop returns its items in the order of the puts.
C16_QueueExactlyOnceFifo ==
    /\ Len(Accounted) = PutCount
    /\ {Accounted[k] : k \in 1..Len(Accounted)} = 1..PutCount
    /\ Increasing(user_input_queue)
    /\ \A c \in {"pop_all", "pop_batch"} :
          /\ Increasing(Held(c))
          /\ \A b \in 1..Len(callers[c].returned) : Increasing(callers[c].returned[b])

\* every item was put, pop_all returned a batch of two and pop_batch
\* returned the third
C16_Witness ==
    /\ PutCount = MaxItems
    /\ user_input_queue = <<>>
    /\ \E b \in 1..Len(callers["pop_all"].returned) : Len(callers["pop_all"].returned[b]) >= 2
    /\ callers["pop_batch"].returned # <<>>
    /\ \A c \in Callers : callers[c].at = "idle"

(***************************************************************************)
(* TaskTool._arun: the tool set of the child agent it builds               *)
(***************************************************************************)
taskFrame == <<stateVars, _user_canceled, task_tool_user_canceled, user_input_queue, event_queue, nodeVars,
               permVars, ghostVars, threadVars, queueVars, childVars, limitVars, busVars, freshVars, todoVars, agentFileVars, slotVars, streamVars, compactVars, windowVars, getVars>>

\* get_all_tools: the tool objects in the order in which they are registered
AllTools ==
    <<"FileReadTool", "FileEditTool", "FileWriteTool", "FileListTool", "GrepTool", "GrepTool", "TaskTool",
      "TodoWriteTool", "BashExecuteTool">>

\* get_tools_by_names
get_tools_by_names(names) ==
    LET Named(t) == \E k \in 1..Len(names) : names[k] = t IN SelectSeq(AllTools, Named)

\* the child's tool list without the removal of the Task tool
exclude_task_tool_none(tools, self_name) == tools

\* [tool for tool in sub_agent_tools if tool.name != self.name]
exclude_task_tool(tools, self_name) == LET Other(t) == t # self_name IN SelectSeq(tools, Other)

\* the tool list handed to the child ReActAgent
SubAgentTools(cfg) ==
    LET star == (~cfg.is_list /\ cfg.names = <<"*">>) \/ (\E k \in 1..Len(cfg.names) : cfg.names[k] = "*")
        chosen == IF ~star THEN get_tools_by_names(cfg.names) ELSE AllTools
    IN  exclude_task_tool(chosen, "TaskTool")

\* the names a descriptor may list
DescriptorNames == RegisteredTools \cup {"*", "GlobTool", "NoSuchTool"}

RECURSIVE ListsUpTo(_)
ListsUpTo(n) ==
    IF n = 0 THEN {<<>>}
    ELSE ListsUpTo(n - 1) \cup {Append(l, t) : l \in {m \in ListsUpTo(n - 1) : Len(m) = n - 1}, t \in DescriptorNames}

Descriptors ==
    {Descriptor(FALSE, <<t>>) : t \in DescriptorNames} \cup {Descriptor(TRUE, l) : l \in ListsUpTo(MaxToolList)}

TaskInit ==
    /\ AgentInit
    /\ GetIdle
    /\ WindowIdle
    /\ CompactIdle
    /\ StreamIdle
    /\ SlotsIdle
    /\ AgentFilesIdle
    /\ TodoIdle
    /\ FreshIdle
    /\ BusIdle
    /\ LimitIdle
    /\ ArunIdle
    /\ ThreadIdle
    /\ QueueIdle
    /\ sub_agent_config \in Descriptors
    /\ sub_agent_tools = NoChild
    /\ session_cache = {}
    /\ config = AgentConfig
    /\ history = NoOp
    /\ pending = {}
    /\ granted = {}

\* TaskTool._arun builds the child agent for the descriptor
BuildSubAgent ==
    /\ ~sub_agent_tools.built
    /\ sub_agent_tools' = [built |-> TRUE, tools |-> SubAgentTools(sub_agent_config)]
    /\ UNCHANGED <<taskFrame, sub_agent_config>>

\* the child has run and TaskTool returns; the tool may be invoked again
SubAgentReturns ==
    /\ sub_agent_tools.built
    /\ sub_agent_tools' = NoChild
    /\ UNCHANGED <<taskFrame, sub_agent_config>>

TaskNext ==
    \/ BuildSubAgent
    \/ SubAgentReturns

SpecTask == TaskInit /\ [][TaskNext]_vars

cancelFrame == <<stateVars, nodeVars, permVars, ghostVars, threadVars, queueVars, taskVars, limitVars, busVars, freshVars, todoVars, agentFileVars, slotVars, streamVars, compactVars, windowVars, getVars>>

\* the step routed to task_node_0 .. task_node_(n-1) for the turn's n Task calls
CancelInit ==
    /\ AgentInit
    /\ GetIdle
    /\ WindowIdle
    /\ CompactIdle
    /\ StreamIdle
    /\ SlotsIdle
    /\ AgentFilesIdle
    /\ TodoIdle
    /\ FreshIdle
    /\ BusIdle
    /\ LimitIdle
    /\ ThreadIdle
    /\ QueueIdle
    /\ sub_agent_config = NoDescriptor
    /\ sub_agent_tools = NoChild
    /\ session_cache = {}
    /\ config = AgentConfig
    /\ history = NoOp
    /\ pending = {}
    /\ granted = {}
    /\ \E n \in 1..MaxTasks : arun = [i \in TaskSlots |-> IF i < n THEN [NoArun EXCEPT !.at = "entry"] ELSE NoArun]

\* task_tool_node(index): the agent's flag is set, no tool is invoked
NodeCanceled(i) ==
    /\ arun[i].at = "entry"
    /\ _user_canceled
    /\ arun' = [arun EXCEPT ![i].at = "done", ![i].ret = "node_canceled"]
    /\ UNCHANGED <<cancelFrame, _user_canceled, task_tool_user_canceled, event_queue, user_input_queue>>

\* task_tool_node(index): the flag is clear, the node awaits task_tool.ainvoke
NodeInvokes(i) ==
    /\ arun[i].at = "entry"
    /\ ~_user_canceled
    /\ arun' = [arun EXCEPT ![i].at = "invoke"]
    /\ UNCHANGED <<cancelFrame, _user_canceled, task_tool_user_canceled, event_queue, user_input_queue>>

\* TaskTool._arun starts: self._user_canceled = False, then it awaits the
\* sub-agent's descriptor
ArunStart(i) ==
    /\ arun[i].at = "invoke"
    /\ task_tool_user_canceled' = FALSE
    /\ arun' = [arun EXCEPT ![i].at = "config"]
    /\ UNCHANGED <<cancelFrame, _user_canceled, event_queue, user_input_queue>>

\* the descriptor is missing: ValueError, which the node turns into a
\* "tool failed" message; or the child ReActAgent is constructed (it
\* subscribes to USER_CANCEL with its own flag clear) and run_stream starts
ArunBuildsChild(i, found) ==
    /\ arun[i].at = "config"
    /\ arun' = [arun EXCEPT ![i].at = IF found THEN "child" ELSE "done",
                            ![i].ret = IF found THEN "None" ELSE "tool_failed",
                            ![i].child_user_canceled = FALSE]
    /\ UNCHANGED <<cancelFrame, _user_canceled, task_tool_user_canceled, event_queue, user_input_queue>>

\* the child's Reason node finds the child's flag set: the child's run ends,
\* canceled, with the last assistant message it had streamed
ChildCanceled(i) ==
    /\ arun[i].at = "child"
    /\ arun[i].child_user_canceled
    /\ arun' = [arun EXCEPT ![i].at = "returning", ![i].child_canceled = TRUE]
    /\ UNCHANGED <<cancelFrame, _user_canceled, task_tool_user_canceled, event_queue, user_input_queue>>

\* the child's Reason node calls the model: an assistant message with tool
\* calls ("interim", the child goes on), a final one ("final"), or a final
\* one after compaction, whose update is not streamed as last_ai_message
ChildResponses == {"interim", "final", "compacted"}

ChildReason(i, resp) ==
    /\ arun[i].at = "child"
    /\ ~arun[i].child_user_canceled
    /\ resp = "interim" => arun[i].last_message = "None"
    /\ arun' = [arun EXCEPT ![i].at = IF resp = "interim" THEN "child" ELSE "returning",
                            ![i].last_message = IF resp = "compacted" THEN @ ELSE resp]
    /\ UNCHANGED <<cancelFrame, _user_canceled, task_tool_user_canceled, event_queue, user_input_queue>>

\* the result _arun returns once the child's stream has ended
arun_result(tool_flag, child_flag, last_message) ==
    IF tool_flag THEN "user_canceled"
    ELSE IF last_message # "None" THEN last_message ELSE "task_failed"

ArunReturns(i) ==
    /\ arun[i].at = "returning"
    /\ arun' = [arun EXCEPT ![i].at = "done",
                            ![i].ret = arun_result(task_tool_user_canceled, arun[i].child_user_canceled,
                                                   arun[i].last_message)]
    /\ UNCHANGED <<cancelFrame, _user_canceled, task_tool_user_canceled, event_queue, user_input_queue>>

\* EventManager._dispatch_event(USER_CANCEL): the handlers of the agent, of
\* the TaskTool object and of every child agent constructed so far
CancelDispatch ==
    /\ event_queue = 1
    /\ event_queue' = 0
    /\ _user_canceled' = TRUE
    /\ task_tool_user_canceled' = TRUE
    /\ user_input_queue' = <<>>
    /\ arun' = [i \in TaskSlots |-> IF arun[i].at \in {"child", "returning"}
                                    THEN [arun[i] EXCEPT !.child_user_canceled = TRUE] ELSE arun[i]]
    /\ UNCHANGED cancelFrame

\* the step is over and a later turn of a later run (run_stream clears the
\* agent's flag) routes to the task nodes again
NextTaskStep(n) ==
    /\ \A i \in TaskSlots : arun[i].at \in {"none", "done"}
    /\ _user_canceled' = FALSE
    /\ arun' = [i \in TaskSlots |-> IF i < n THEN [NoArun EXCEPT !.at = "entry"] ELSE NoArun]
    /\ UNCHANGED <<cancelFrame, task_tool_user_canceled, event_queue, user_input_queue>>

CancelNext ==
    \/ PublishUserCancel
    \/ CancelDispatch
    \/ \E i \in TaskSlots : NodeCanceled(i)
    \/ \E i \in TaskSlots : NodeInvokes(i)
    \/ \E i \in TaskSlots : ArunStart(i)
    \/ \E i \in TaskSlots, found \in BOOLEAN : ArunBuildsChild(i, found)
    \/ \E i \in TaskSlots : ChildCanceled(i)
    \/ \E i \in TaskSlots, resp \in ChildResponses : ChildReason(i, resp)
    \/ \E i \in TaskSlots : ArunReturns(i)
    \/ \E n \in 1..MaxTasks : NextTaskStep(n)

SpecCancel == CancelInit /\ [][CancelNext]_vars

\* C21: every Task call whose child was canceled by USER_CANCEL returns
\* "user canceled", also when the Task calls of the turn run in different
\* slots and start at different times; a call whose child was not canceled
\* returns the child's final assistant text, or the error string when the
\* child streamed no assistant message.
C21_TaskCancelResult ==
    \A i \in TaskSlots :
        (arun[i].at = "done" /\ arun[i].ret \notin {"node_canceled", "tool_failed"}) =>
            IF arun[i].child_canceled THEN arun[i].ret = "user_canceled"
            ELSE arun[i].ret = (IF arun[i].last_message # "None" THEN arun[i].last_message ELSE "task_failed")

(***************************************************************************)
(* Specification of the recursion limit: process_input_stream passes       *)
(* recursion_limit to the graph, which counts the steps of an execution    *)
(* and raises GraphRecursionError when nodes are still to run after that   *)
(* many steps; each step's checkpoint names the nodes that run next.       *)
(* RecursionLimit stands for the configured 1000 (assistant.py line 63).   *)
(***************************************************************************)
limitFrame == <<messages, tool_calls, user_canceled, resume_values, _user_canceled, task_tool_user_canceled,
                event_queue, nodeVars, permVars, executed, model_calls, turn_count, run_count, cp, cancel_latched,
                requests, comp, queueVars, taskVars, childVars, busVars, freshVars, todoVars, agentFileVars, slotVars, streamVars, compactVars, windowVars, getVars>>

LimitInit ==
    /\ AgentInit
    /\ ExtInit
    /\ session_cache = {}
    /\ config = AgentConfig
    /\ history = NoOp
    /\ pending = {}
    /\ granted = {}

\* process_input_stream -> run_stream with the status Finished: a fresh run
LimitFresh ==
    /\ get_graph_status = "Finished"
    /\ pc' = "reason"
    /\ current_iteration' = 0
    /\ turn' = NoTurn
    /\ step' = 0
    /\ executions' = 1
    /\ stream_events' = {}
    /\ UNCHANGED <<limitFrame, user_input_queue>>

\* ... with the status Running: the input is queued behind the busy thread
LimitQueued ==
    /\ get_graph_status = "Running"
    /\ Len(user_input_queue) < MaxQueue
    /\ user_input_queue' = Append(user_input_queue, "text")
    /\ stream_events' = stream_events \cup run_stream_types(run_stream_yields("Running", "text"))
    /\ UNCHANGED <<limitFrame, pc, current_iteration, turn, step, executions>>

\* ... with the status Interrupted: the suspended node is resumed by a new
\* execution, which counts its steps anew
LimitResume ==
    /\ get_graph_status = "Interrupted"
    /\ pc' = "check_permissions"
    /\ step' = 0
    /\ executions' = 1
    /\ stream_events' = {}
    /\ UNCHANGED <<limitFrame, user_input_queue, current_iteration, turn>>

\* a step of the running execution is allowed while fewer than
\* recursion_limit steps were made
MayStep == executions = 1 /\ step < RecursionLimit

\* _reason_node: pops the queue, calls the model, counts the iteration
LimitReason(outcome) ==
    /\ MayStep
    /\ pc = "reason"
    /\ user_input_queue' = <<>>
    /\ current_iteration' = current_iteration + 1
    /\ pc' = IF outcome = "end" THEN "END" ELSE "check_permissions"
    /\ executions' = IF outcome = "end" THEN 0 ELSE executions
    /\ turn' = NoTurn
    /\ step' = step + 1
    /\ UNCHANGED <<limitFrame, stream_events>>

\* _check_permissions_node: suspends in interrupt() or routes to the tools
LimitCheckPermissions(outcome) ==
    /\ MayStep
    /\ pc = "check_permissions"
    /\ outcome = "interrupt" => (turn.shown = <<>> /\ current_iteration < MaxIterations)
    /\ pc' = IF outcome = "interrupt" THEN "interrupted" ELSE "tools"
    /\ executions' = IF outcome = "interrupt" THEN 0 ELSE executions
    /\ turn' = IF outcome = "interrupt" THEN [turn EXCEPT !.shown = Append(@, 11)] ELSE turn
    /\ stream_events' = IF outcome = "interrupt" THEN stream_events \cup {"permission_request"} ELSE stream_events
    /\ step' = step + 1
    /\ UNCHANGED <<limitFrame, user_input_queue, current_iteration>>

\* execute_tools and the task nodes
LimitExecuteTools ==
    /\ MayStep
    /\ pc = "tools"
    /\ pc' = "reason"
    /\ step' = step + 1
    /\ UNCHANGED <<limitFrame, user_input_queue, current_iteration, turn, executions, stream_events>>

\* nodes are still to run after recursion_limit steps: astream raises
\* GraphRecursionError, which process_input_stream turns into an error
\* event; the last checkpoint is left as it is
LimitExceeded ==
    /\ executions = 1
    /\ step = RecursionLimit
    /\ pc \in {"reason", "check_permissions", "tools"}
    /\ executions' = 0
    /\ stream_events' = stream_events \cup {"error"}
    /\ UNCHANGED <<limitFrame, pc, user_input_queue, current_iteration, turn, step>>

LimitNext ==
    \/ LimitFresh
    \/ LimitQueued
    \/ LimitResume
    \/ \E o \in {"end", "continue"} : LimitReason(o)
    \/ \E o \in {"interrupt", "execute"} : LimitCheckPermissions(o)
    \/ LimitExecuteTools
    \/ LimitExceeded

SpecLimit == LimitInit /\ [][LimitNext]_vars

\* C22: when a run has exceeded the recursion limit it has stopped with an
\* error-typed stream event and the status of the thread is Finished, so that
\* the next input starts a fresh run instead of being queued as busy.
C22_LimitFinishesRun ==
    (step = RecursionLimit /\ executions = 0 /\ pc # "END" /\ pc # "interrupted") =>
        /\ "error" \in stream_events
        /\ get_graph_status = "Finished"

(***************************************************************************)
(* Specification of the event bus (EventManager): callers of subscribe and *)
(* publish, one caller of start and stop, the task running                 *)
(* _process_events and the coroutines of the asynchronous callbacks        *)
(* (unsubscribe has no caller in the program).                             *)
(* Events are numbered in the order of the publish calls.  A coroutine     *)
(* runs undisturbed between two awaits: publish does not wait on the       *)
(* unbounded queue, and the dispatcher runs from queue.get to the await of *)
(* gather (all synchronous callbacks) in one piece.                        *)
(***************************************************************************)
busFrame == <<stateVars, _user_canceled, task_tool_user_canceled, user_input_queue, event_queue, nodeVars,
              permVars, ghostVars, threadVars, queueVars, taskVars, childVars, limitVars, freshVars, todoVars, agentFileVars, slotVars, streamVars, compactVars, windowVars, getVars>>

Events == 1..MaxEvents

\* asyncio.iscoroutinefunction(callback)
IsAsync(h) == h \in {"a1", "a2"}

IsSync(h) == ~IsAsync(h)

BusInit ==
    /\ AgentInit
    /\ ExtInit
    /\ session_cache = {}
    /\ config = AgentConfig
    /\ history = NoOp
    /\ pending = {}
    /\ granted = {}

\* subscribe(event_type, callback): appended unless already in the list
Subscribe(h) ==
    /\ ~Contains(_subscribers, h)
    /\ _subscribers' = Append(_subscribers, h)
    /\ UNCHANGED <<busFrame, _is_running, _event_queue, _processing_task, dispatch, active, received, raised,
                   publish_count, dropped, stop_at, last_done>>

\* publish: the event is dropped unless the manager is running
publish_drops_never(is_running) == FALSE

publish_drops(is_running) == ~is_running

Publish ==
    /\ publish_count < MaxEvents
    /\ publish_count' = publish_count + 1
    /\ _event_queue' = IF publish_drops(_is_running) THEN _event_queue ELSE Append(_event_queue, publish_count + 1)
    /\ dropped' = IF _is_running THEN dropped ELSE dropped \cup {publish_count + 1}
    /\ UNCHANGED <<busFrame, _is_running, _processing_task, _subscribers, dispatch, active, received, raised,
                   stop_at, last_done>>

\* start(): the flag is set and the task for _process_events is created
Start ==
    /\ ~_is_running
    /\ stop_at = "idle"
    /\ _is_running' = TRUE
    /\ _processing_task' = "get"
    /\ UNCHANGED <<busFrame, _event_queue, _subscribers, dispatch, active, received, raised, publish_count,
                   dropped, stop_at, last_done>>

\* the synchronous callbacks _dispatch_event calls, given those that raise:
\* each call is in its own try, so all of them (the mutant stops at the
\* first that raises)
RECURSIVE sync_invoked_until_raise(_, _)
sync_invoked_until_raise(callbacks, raising) ==
    IF callbacks = <<>> THEN <<>>
    ELSE IF Head(callbacks) \in raising THEN <<Head(callbacks)>>
    ELSE <<Head(callbacks)>> \o sync_invoked_until_raise(Tail(callbacks), raising)

sync_invoked(callbacks, raising) == callbacks

SeqToSet(s) == {s[k] : k \in 1..Len(s)}

\* _process_events takes the next event and _dispatch_event runs up to the
\* await of gather: the subscriber list is copied and split, the synchronous
\* callbacks are called in order, the coroutines of the asynchronous ones are
\* made; without asynchronous callbacks the call returns at once
DispatchSync(raising) ==
    /\ _processing_task = "get"
    /\ _event_queue # <<>>
    /\ raising \subseteq {h \in SeqToSet(_subscribers) : IsSync(h)}
    /\ LET event == Head(_event_queue)
           subscribers == _subscribers
           sync_callbacks == SelectSeq(subscribers, IsSync)
           async_callbacks == SelectSeq(subscribers, IsAsync)
           called == SeqToSet(sync_invoked(sync_callbacks, raising))
       IN /\ _event_queue' = Tail(_event_queue)
          /\ received' = [h \in Handlers |-> IF h \in called THEN Append(received[h], event) ELSE received[h]]
          /\ raised' = IF raising \cap called # {} THEN raised \cup {event} ELSE raised
          /\ active' = active \cup {[h |-> h, e |-> event, st |-> "pending"] : h \in SeqToSet(async_callbacks)}
          /\ IF async_callbacks = <<>>
             THEN /\ last_done' = [event |-> event, subscribers |-> subscribers]
                  /\ UNCHANGED <<_processing_task, dispatch>>
             ELSE /\ _processing_task' = "gather"
                  /\ dispatch' = [event |-> event, subscribers |-> subscribers]
                  /\ UNCHANGED last_done
    /\ UNCHANGED <<busFrame, _is_running, _subscribers, publish_count, dropped, stop_at>>

\* the coroutine of an asynchronous callback starts to run
AsyncStart(r) ==
    /\ r \in active
    /\ r.st = "pending"
    /\ active' = (active \ {r}) \cup {[r EXCEPT !.st = "running"]}
    /\ received' = [received EXCEPT ![r.h] = Append(@, r.e)]
    /\ UNCHANGED <<busFrame, _is_running, _event_queue, _processing_task, _subscribers, dispatch, raised,
                   publish_count, dropped, stop_at, last_done>>

\* ... and returns or raises: gather(return_exceptions=True) takes either
AsyncFinish(r, raises) ==
    /\ r \in active
    /\ r.st = "running"
    /\ active' = active \ {r}
    /\ raised' = IF raises THEN raised \cup {r.e} ELSE raised
    /\ UNCHANGED <<busFrame, _is_running, _event_queue, _processing_task, _subscribers, dispatch, received,
                   publish_count, dropped, stop_at, last_done>>

\* await gather(*tasks) returns when every coroutine has finished (the
\* mutant does not wait for them)
gather_done_nowait(unfinished) == TRUE

gather_done(unfinished) == unfinished = {}

\* _dispatch_event returns, task_done, and the loop awaits the next event
DispatchEnd ==
    /\ _processing_task = "gather"
    /\ gather_done({r \in active : r.e = dispatch.event})
    /\ _processing_task' = "get"
    /\ last_done' = dispatch
    /\ dispatch' = NoDispatch
    /\ UNCHANGED <<busFrame, _is_running, _event_queue, _subscribers, active, received, raised, publish_count,
                   dropped, stop_at>>

\* stop() up to its await: the flag is cleared and the task is cancelled,
\* which cancels the gather it waits in and with it the coroutines of the
\* callbacks
StopBegin ==
    /\ _is_running
    /\ stop_at = "idle"
    /\ _is_running' = FALSE
    /\ _processing_task' = "cancelled"
    /\ active' = {r \in active : r.e # dispatch.event}
    /\ dispatch' = NoDispatch
    /\ stop_at' = "await"
    /\ UNCHANGED <<busFrame, _event_queue, _subscribers, received, raised, publish_count, dropped, last_done>>

\* the task gets CancelledError at its await and _process_events breaks
TaskCancelled ==
    /\ _processing_task = "cancelled"
    /\ _processing_task' = "done"
    /\ UNCHANGED <<busFrame, _is_running, _event_queue, _subscribers, dispatch, active, received, raised,
                   publish_count, dropped, stop_at, last_done>>

\* what stop() leaves of the queue (the mutant leaves it as it is)
drain_none(queue) == queue

drain(queue) == <<>>

\* stop() after its await: the queue is emptied and stop returns
StopReturn ==
    /\ stop_at = "await"
    /\ _processing_task = "done"
    /\ _event_queue' = drain(_event_queue)
    /\ stop_at' = "idle"
    /\ UNCHANGED <<busFrame, _is_running, _processing_task, _subscribers, dispatch, active, received, raised,
                   publish_count, dropped, last_done>>

BusNext ==
    \/ \E h \in Handlers : Subscribe(h)
    \/ Publish
    \/ Start
    \/ \E raising \in SUBSET {"s1", "s2"} : DispatchSync(raising)
    \/ \E r \in active : AsyncStart(r)
    \/ \E r \in active, raises \in BOOLEAN : AsyncFinish(r, raises)
    \/ DispatchEnd
    \/ StopBegin
    \/ TaskCancelled
    \/ StopReturn

SpecBus == BusInit /\ [][BusNext]_vars

\* C23: every callback is called with the events in the order in which they
\* were published, and no callback of an earlier event is unfinished when the
\* dispatch of another event has begun.
C23_PublishOrder ==
    /\ \A h \in Handlers : Increasing(received[h])
    /\ \A r \in active : r.e = dispatch.event

\* two events were delivered, in order, to a synchronous and to an
\* asynchronous callback
C23_Witness ==
    /\ received["s1"] = <<1, 2>>
    /\ received["a1"] = <<1, 2>>
    /\ last_done.event = 2

\* C24: when a callback, synchronous or asynchronous, has raised for an event,
\* every callback subscribed when the event was dispatched has still been
\* called with it, and the dispatcher goes on running.
C24_HandlerFailureIsolated ==
    /\ last_done.event \in raised =>
           \A h \in SeqToSet(last_done.subscribers) : Contains(received[h], last_done.event)
    /\ _is_running => _processing_task \in {"get", "gather"}

\* a callback raised for event 1; all four callbacks got it and event 2
C24_Witness ==
    /\ 1 \in raised
    /\ last_done.event = 2
    /\ \A h \in Handlers : received[h] = <<1, 2>>

\* C25: an event published while the manager is not running is never in the
\* queue and is never given to a callback, also after a later start().
C25_DroppedNeverDelivered ==
    \A e \in dropped :
        /\ ~Contains(_event_queue, e)
        /\ \A h \in Handlers : ~Contains(received[h], e)

\* event 1 was published before start(); after start() event 2 was delivered
C25_Witness ==
    /\ 1 \in dropped
    /\ _is_running
    /\ \E h \in Handlers : received[h] = <<2>>

\* stop() has returned and start() was not called since
Stopped == ~_is_running /\ stop_at = "idle" /\ _processing_task # "None"

\* C26: when stop() has returned the queue is empty and the dispatcher has
\* ended, and no callback is called until the next start().
C26_StopDrains ==
    /\ [](Stopped => (_event_queue = <<>> /\ _processing_task = "done" /\ active = {}))
    /\ [][Stopped => received' = received]_vars

\* stop() has returned after an event was published to the running manager
\* that no subscribed callback has got
C26_Witness ==
    /\ Stopped
    /\ _subscribers # <<>>
    /\ \E e \in 1..publish_count :
           /\ e \notin dropped
           /\ \A h \in Handlers : ~Contains(received[h], e)

(***************************************************************************)
(* The freshness tracker (utils/freshness.py) for one path.  Time is the   *)
(* value of a clock that both time.time() and the file's mtime are taken   *)
(* from; several operations can fall on the same value.  read_count is     *)
(* left out.                                                               *)
(***************************************************************************)
freshFrame == <<stateVars, _user_canceled, task_tool_user_canceled, user_input_queue, event_queue, nodeVars,
                permVars, ghostVars, threadVars, queueVars, taskVars, childVars, limitVars, busVars, todoVars, agentFileVars, slotVars, streamVars, compactVars, windowVars, getVars>>

\* _get_file_mtime in a try: the mtime, or the field as it was when the file
\* is missing
external_edit_time(rec, f) == IF f.exists THEN f.mtime ELSE rec.last_external_edit_time

\* update_read_time: the mutant does not clear last_agent_edit_time
update_read_time_keeps_edit(rec, f, now) ==
    [present |-> TRUE, last_read_time |-> now, last_agent_edit_time |-> rec.last_agent_edit_time,
     last_external_edit_time |-> external_edit_time(rec, f)]

update_read_time(rec, f, now) ==
    [present |-> TRUE, last_read_time |-> now, last_agent_edit_time |-> NoTime,
     last_external_edit_time |-> external_edit_time(rec, f)]

\* update_agent_edit_time
update_agent_edit_time(rec, f, now) ==
    [present |-> TRUE, last_read_time |-> rec.last_read_time, last_agent_edit_time |-> now,
     last_external_edit_time |-> external_edit_time(rec, f)]

Answer(needs_read, reason, rec) == [needs_read |-> needs_read, reason |-> reason, record |-> rec]

\* check_freshness: the mutant looks at the read time before the agent's
\* edit time
check_freshness_read_first(rec, f) ==
    IF ~rec.present THEN Answer(TRUE, "must_read", rec)
    ELSE IF rec.last_read_time # NoTime
         THEN IF ~f.exists THEN Answer(TRUE, "inaccessible", rec)
              ELSE IF f.mtime > rec.last_read_time
                   THEN Answer(TRUE, "externally_modified", [rec EXCEPT !.last_external_edit_time = f.mtime])
                   ELSE Answer(FALSE, "unchanged", [rec EXCEPT !.last_external_edit_time = f.mtime])
    ELSE IF rec.last_agent_edit_time # NoTime
         THEN IF ~f.exists THEN Answer(TRUE, "inaccessible", rec)
              ELSE IF f.mtime > rec.last_agent_edit_time
                   THEN Answer(TRUE, "externally_modified", [rec EXCEPT !.last_external_edit_time = f.mtime])
                   ELSE Answer(FALSE, "agent_has_latest", [rec EXCEPT !.last_external_edit_time = f.mtime])
    ELSE Answer(TRUE, "must_read", rec)

check_freshness(rec, f) ==
    IF ~rec.present THEN Answer(TRUE, "must_read", rec)
    ELSE IF rec.last_agent_edit_time # NoTime
         THEN IF ~f.exists THEN Answer(TRUE, "inaccessible", rec)
              ELSE IF f.mtime > rec.last_agent_edit_time
                   THEN Answer(TRUE, "externally_modified", [rec EXCEPT !.last_external_edit_time = f.mtime])
                   ELSE Answer(FALSE, "agent_has_latest", [rec EXCEPT !.last_external_edit_time = f.mtime])
    ELSE IF rec.last_read_time # NoTime
         THEN IF ~f.exists THEN Answer(TRUE, "inaccessible", rec)
              ELSE IF f.mtime > rec.last_read_time
                   THEN Answer(TRUE, "externally_modified", [rec EXCEPT !.last_external_edit_time = f.mtime])
                   ELSE Answer(FALSE, "unchanged", [rec EXCEPT !.last_external_edit_time = f.mtime])
    ELSE Answer(TRUE, "must_read", rec)

\* clear_record, clear_all
clear_record(rec) == NoRecord

FreshInit ==
    /\ AgentInit
    /\ ExtInit
    /\ session_cache = {}
    /\ config = AgentConfig
    /\ history = NoOp
    /\ pending = {}
    /\ granted = {}

\* time passes
Tick ==
    /\ clock < MaxTime
    /\ clock' = clock + 1
    /\ UNCHANGED <<freshFrame, file, _freshness_records, handler, view, silent_overwrite, last_op, last_check,
                   last_tool>>

\* content the agent has read or written is stale once the file is changed
\* from outside
external_change(v) == IF v = "never" THEN "never" ELSE "stale"

\* the user or another program creates or rewrites the file
ExternalWrite ==
    /\ file' = [exists |-> TRUE, mtime |-> clock]
    /\ view' = external_change(view)
    /\ UNCHANGED <<freshFrame, clock, _freshness_records, handler, silent_overwrite, last_op, last_check, last_tool>>

\* ... or deletes it
ExternalDelete ==
    /\ file.exists
    /\ file' = [exists |-> FALSE, mtime |-> NoTime]
    /\ view' = external_change(view)
    /\ UNCHANGED <<freshFrame, clock, _freshness_records, handler, silent_overwrite, last_op, last_check, last_tool>>

Call(op) == [op |-> op, exists |-> file.exists, mtime |-> file.mtime]

(***************************************************************************)
(* Specification of the tracker's interface: any sequence of its calls     *)
(***************************************************************************)
UpdateRead ==
    /\ _freshness_records' = update_read_time(_freshness_records, file, clock)
    /\ last_op' = Call("update_read")
    /\ UNCHANGED <<freshFrame, clock, file, handler, view, silent_overwrite, last_check, last_tool>>

UpdateAgentEdit ==
    /\ _freshness_records' = update_agent_edit_time(_freshness_records, file, clock)
    /\ last_op' = Call("update_agent_edit")
    /\ UNCHANGED <<freshFrame, clock, file, handler, view, silent_overwrite, last_check, last_tool>>

Check ==
    /\ \E r \in {check_freshness(_freshness_records, file)} :
          /\ _freshness_records' = r.record
          /\ last_check' = [done |-> TRUE, prev |-> last_op, record |-> _freshness_records,
                            exists |-> file.exists, mtime |-> file.mtime,
                            needs_read |-> r.needs_read, reason |-> r.reason]
    /\ last_op' = Call("check")
    /\ UNCHANGED <<freshFrame, clock, file, handler, view, silent_overwrite, last_tool>>

ClearRecord ==
    /\ _freshness_records' = clear_record(_freshness_records)
    /\ last_op' = Call("clear_record")
    /\ UNCHANGED <<freshFrame, clock, file, handler, view, silent_overwrite, last_check, last_tool>>

ClearAll ==
    /\ _freshness_records' = NoRecord
    /\ last_op' = Call("clear_all")
    /\ UNCHANGED <<freshFrame, clock, file, handler, view, silent_overwrite, last_check, last_tool>>

TrackerNext ==
    \/ Tick
    \/ ExternalWrite
    \/ ExternalDelete
    \/ UpdateRead
    \/ UpdateAgentEdit
    \/ Check
    \/ ClearRecord
    \/ ClearAll

SpecTracker == FreshInit /\ [][TrackerNext]_vars

\* C27: check follows the decision table: no record -> needs_read; a recorded
\* path whose file is missing -> needs_read; a record with an agent edit ->
\* needs_read iff mtime > last_agent_edit, before the read row is looked at;
\* a record with a read only -> needs_read iff mtime > last_read.
C27_DecisionTable ==
    last_check.done =>
        LET rec == last_check.record
        IN last_check.needs_read =
               (IF ~rec.present THEN TRUE
                ELSE IF ~last_check.exists THEN TRUE
                ELSE IF rec.last_agent_edit_time # NoTime THEN last_check.mtime > rec.last_agent_edit_time
                ELSE IF rec.last_read_time # NoTime THEN last_check.mtime > rec.last_read_time
                ELSE TRUE)

\* a check of a record with a read and a later agent edit, whose file was
\* changed between the two: the agent-edit row decides (fresh)
C27_Witness ==
    /\ last_check.done
    /\ last_check.record.last_read_time # NoTime
    /\ last_check.record.last_agent_edit_time # NoTime
    /\ last_check.exists
    /\ last_check.mtime > last_check.record.last_read_time
    /\ ~last_check.needs_read

Idle == handler.at = "idle"

Ended(outcome) ==
    /\ handler' = NoHandler
    /\ last_tool' = [tool |-> handler.tool, outcome |-> outcome, clean |-> handler.after_write /\ view = "current"]

\* the last tool call wrote the path and nothing else has touched it since
AfterWrite == last_tool.tool \in {"FileWrite", "FileEdit"} /\ last_tool.outcome = "ok" /\ view = "current"

\* FileReadTool._execute_tool up to the checks of the path
FileReadBegin ==
    /\ Idle
    /\ IF file.exists
       THEN /\ handler' = [NoHandler EXCEPT !.tool = "FileRead", !.at = "read", !.old_file_exists = TRUE]
            /\ UNCHANGED last_tool
       ELSE /\ handler' = NoHandler
            /\ last_tool' = [tool |-> "FileRead", outcome |-> "error", clean |-> FALSE]
    /\ UNCHANGED <<freshFrame, clock, file, _freshness_records, view, silent_overwrite, last_op, last_check>>

\* ... f.readlines(): the content that will be given to the agent
FileReadContent ==
    /\ handler.tool = "FileRead" /\ handler.at = "read"
    /\ IF file.exists
       THEN /\ handler' = [handler EXCEPT !.at = "record"]
            /\ view' = "current"
            /\ UNCHANGED last_tool
       ELSE /\ Ended("error")
            /\ UNCHANGED view
    /\ UNCHANGED <<freshFrame, clock, file, _freshness_records, silent_overwrite, last_op, last_check>>

\* ... update_read_time and the tool_end event
FileReadRecord ==
    /\ handler.tool = "FileRead" /\ handler.at = "record"
    /\ _freshness_records' = update_read_time(_freshness_records, file, clock)
    /\ Ended("ok")
    /\ UNCHANGED <<freshFrame, clock, file, view, silent_overwrite, last_op, last_check>>

\* FileWriteTool._run: safe_path.exists()
FileWriteBegin ==
    /\ Idle
    /\ handler' = [tool |-> "FileWrite", at |-> IF file.exists THEN "check" ELSE "write",
                   old_file_exists |-> file.exists, old_string |-> "", after_write |-> AfterWrite]
    /\ UNCHANGED <<freshFrame, clock, file, _freshness_records, view, silent_overwrite, last_op, last_check,
                   last_tool>>

\* FileEditTool._execute_tool: safe_path.exists() and _verify_input; an
\* existing file needs an old_string that it holds exactly once
FileEditBegin(old_string, found) ==
    /\ Idle
    /\ IF file.exists /\ (old_string = "" \/ ~found)
       THEN /\ handler' = NoHandler
            /\ last_tool' = [tool |-> "FileEdit", outcome |-> "error", clean |-> FALSE]
       ELSE /\ handler' = [tool |-> "FileEdit", at |-> IF file.exists THEN "check" ELSE "apply",
                           old_file_exists |-> file.exists, old_string |-> old_string,
                           after_write |-> AfterWrite]
            /\ UNCHANGED last_tool
    /\ UNCHANGED <<freshFrame, clock, file, _freshness_records, view, silent_overwrite, last_op, last_check>>

\* check_freshness of either tool, and the ValueError when it asks for a read
FreshnessCheck ==
    /\ handler.at = "check"
    /\ \E r \in {check_freshness(_freshness_records, file)} :
          /\ _freshness_records' = r.record
          /\ IF r.needs_read
             THEN Ended("stale")
             ELSE /\ handler' = [handler EXCEPT !.at = "apply"]
                  /\ UNCHANGED last_tool
    /\ UNCHANGED <<freshFrame, clock, file, view, silent_overwrite, last_op, last_check>>

\* the old content is read again: FileWrite when the file existed,
\* _apply_edit when old_string is not empty
reads_old_content(h) ==
    IF h.tool = "FileWrite" THEN h.old_file_exists ELSE h.old_string # ""

ApplyEdit(found) ==
    /\ handler.at = "apply"
    /\ IF reads_old_content(handler) /\ (~file.exists \/ (handler.tool = "FileEdit" /\ ~found))
       THEN Ended("error")
       ELSE /\ handler' = [handler EXCEPT !.at = "write"]
            /\ UNCHANGED last_tool
    /\ UNCHANGED <<freshFrame, clock, file, _freshness_records, view, silent_overwrite, last_op, last_check>>

\* write_text_content
WriteTextContent ==
    /\ handler.at = "write"
    /\ file' = [exists |-> TRUE, mtime |-> clock]
    /\ silent_overwrite' = (silent_overwrite \/ (file.exists /\ view = "stale"))
    /\ view' = "current"
    /\ handler' = [handler EXCEPT !.at = "record"]
    /\ UNCHANGED <<freshFrame, clock, _freshness_records, last_op, last_check, last_tool>>

\* whether the handler records its write: FileEdit always, FileWrite when
\* the file was there before
records_agent_edit(h) == h.tool = "FileEdit" \/ h.old_file_exists

\* update_agent_edit_time and the result
RecordAgentEdit ==
    /\ handler.tool \in {"FileWrite", "FileEdit"} /\ handler.at = "record"
    /\ _freshness_records' = IF records_agent_edit(handler)
                             THEN update_agent_edit_time(_freshness_records, file, clock)
                             ELSE _freshness_records
    /\ Ended("ok")
    /\ UNCHANGED <<freshFrame, clock, file, view, silent_overwrite, last_op, last_check>>

FilesNext ==
    \/ Tick
    \/ ExternalWrite
    \/ ExternalDelete
    \/ FileReadBegin
    \/ FileReadContent
    \/ FileReadRecord
    \/ FileWriteBegin
    \/ \E old_string \in {"", "s"}, found \in BOOLEAN : FileEditBegin(old_string, found)
    \/ FreshnessCheck
    \/ \E found \in BOOLEAN : ApplyEdit(found)
    \/ WriteTextContent
    \/ RecordAgentEdit

SpecFiles == FreshInit /\ [][FilesNext]_vars

\* C29: a FileWrite or FileEdit that comes right after a successful FileWrite
\* or FileEdit of the path, nothing else having touched the file since that
\* write, is not turned down by the freshness check.
C29_WriteThenWritePasses ==
    (last_tool.outcome = "stale") => ~last_tool.clean

\* C30: no write of FileWrite or FileEdit replaces content that was put in
\* the file from outside after the agent last read or wrote it, whatever the
\* interleaving of the outside change with the steps of the handlers.
C30_NoSilentOverwrite ==
    ~silent_overwrite

(***************************************************************************)
(* The todo lists (tools/todo/todo_write.py, utils/todo.py).  An item is   *)
(* its id and status; whether some item of a list has an empty content is  *)
(* an input of the call; priority and the time stamps only refine the      *)
(* order of items of equal status and are left out.                        *)
(***************************************************************************)
todoFrame == <<stateVars, _user_canceled, task_tool_user_canceled, user_input_queue, event_queue, nodeVars,
               permVars, ghostVars, threadVars, queueVars, taskVars, childVars, limitVars, busVars, freshVars, agentFileVars, slotVars, streamVars, compactVars, windowVars, getVars>>

TodoIds == {1, 2}

TodoStatus == {"pending", "in_progress", "completed"}

TodoItem == [id : TodoIds, status : TodoStatus]

TodoLists == UNION {[1..n -> TodoItem] : n \in 0..MaxTodos}

uniq_ids(todos) == {todos[k].id : k \in 1..Len(todos)}

in_progress_count(todos) == Cardinality({k \in 1..Len(todos) : todos[k].status = "in_progress"})

\* a list has unique ids and at most one item in progress
TodoListOk(stored) ==
    /\ Cardinality(uniq_ids(stored)) = Len(stored)
    /\ in_progress_count(stored) <= 1

\* _verify_input: the mutant does not count the items in progress
verify_input_ids_only(todos, empty_content) ==
    IF Cardinality(uniq_ids(todos)) # Len(todos) THEN "Duplicate todo IDs found"
    ELSE IF empty_content THEN "Todo has empty content"
    ELSE "ok"

verify_input(todos, empty_content) ==
    IF Cardinality(uniq_ids(todos)) # Len(todos) THEN "Duplicate todo IDs found"
    ELSE IF in_progress_count(todos) > 1 THEN "Only one task can be in_progress at a time"
    ELSE IF empty_content THEN "Todo has empty content"
    ELSE "ok"

\* storage_items.sort(key=sort_key): a stable sort, in progress first, then
\* pending, then completed
sort_todos(items) ==
    SelectSeq(items, LAMBDA item : item.status = "in_progress")
        \o SelectSeq(items, LAMBDA item : item.status = "pending")
        \o SelectSeq(items, LAMBDA item : item.status = "completed")

\* set_todos past the length test: the list that is written to the file
set_todos(todos, auto_archive_completed) ==
    LET kept == IF auto_archive_completed
                THEN SelectSeq(todos, LAMBDA item : item.status # "completed")
                ELSE todos
    IN sort_todos(kept)

\* delete_todo_file_if_need: the file is removed when nothing remains to do
delete_todo_file_if_need(stored) ==
    IF \A k \in 1..Len(stored) : stored[k].status = "completed" THEN <<>> ELSE stored

TodoInit ==
    /\ AgentInit
    /\ ExtInit
    /\ session_cache = {}
    /\ config = AgentConfig
    /\ history = NoOp
    /\ pending = {}
    /\ granted = {}

\* TodoWriteTool._run
TodoWrite(agent_id, todos, empty_content, auto_archive_completed) ==
    /\ \E v \in {verify_input(todos, empty_content)} :
          IF v # "ok" \/ Len(todos) > max_todos
          THEN /\ todo_call' = [valid |-> TodoListOk(todos), outcome |-> "error"]
               /\ UNCHANGED todo_files
          ELSE /\ todo_call' = [valid |-> TodoListOk(todos), outcome |-> "ok"]
               /\ todo_files' = [todo_files EXCEPT
                                   ![agent_id] = delete_todo_file_if_need(set_todos(todos, auto_archive_completed))]
    /\ UNCHANGED todoFrame

TodoNext ==
    \E agent_id \in TodoAgents, todos \in TodoLists, empty_content \in BOOLEAN, auto_archive_completed \in BOOLEAN :
        TodoWrite(agent_id, todos, empty_content, auto_archive_completed)

SpecTodo == TodoInit /\ [][TodoNext]_vars

\* C31: every agent's stored todo list has unique ids and at most one item in
\* progress; a call whose list has a repeated id or two items in progress
\* ends in an error, and a call that ends in an error leaves every stored
\* list as it was.
C31_TodoInvariant ==
    /\ [](\A a \in TodoAgents : TodoListOk(todo_files[a]))
    /\ [][/\ ~todo_call'.valid => todo_call'.outcome = "error"
          /\ todo_call'.outcome = "error" => todo_files' = todo_files]_vars

\* a call whose list breaks the rule was turned down while the sub-agent's
\* list held two items, one of them in progress
C31_Witness ==
    /\ todo_call.outcome = "error"
    /\ ~todo_call.valid
    /\ in_progress_count(todo_files["sub"]) = 1
    /\ Len(todo_files["sub"]) = 2

(***************************************************************************)
(* The sub-agent definitions (utils/subagent.py).  A file of a directory   *)
(* is "valid" (agent_name and description given), "invalid" or "absent".   *)
(***************************************************************************)
agentFileFrame == <<stateVars, _user_canceled, task_tool_user_canceled, user_input_queue, event_queue, nodeVars,
                    permVars, ghostVars, threadVars, queueVars, taskVars, childVars, limitVars, busVars, freshVars,
                    todoVars, slotVars, streamVars, compactVars, windowVars, getVars>>

\* the names that the loop of scan_sub_agent_directory appends to sub_agents
parsed_sub_agents(dir_files) == {n \in AgentNames : dir_files[n] = "valid"}

\* scan_sub_agent_directory: the function ends with `return []`, whatever
\* the loop has collected
scan_sub_agent_directory(dir_files) ==
    LET sub_agents == parsed_sub_agents(dir_files)
    IN {}

\* load_all_sub_agents: activeAgents, as the agent_type kept for each name
load_all_sub_agents(files) ==
    LET users == scan_sub_agent_directory(files["user"])
        projects == scan_sub_agent_directory(files["project"])
    IN [n \in AgentNames |->
           IF n \in projects THEN "project"
           ELSE IF n \in users THEN "user"
           ELSE IF n = "general-purpose" THEN "built-in"
           ELSE "None"]

AgentFilesInit ==
    /\ AgentInit
    /\ ExtInit
    /\ session_cache = {}
    /\ config = AgentConfig
    /\ history = NoOp
    /\ pending = {}
    /\ granted = {}

\* a definition file is written, changed or removed; the watcher's handler
\* clears the caches
ChangeAgentFile(d, n, content) ==
    /\ agent_files[d][n] # content
    /\ agent_files' = [agent_files EXCEPT ![d][n] = content]
    /\ agents_cache' = NoCache
    /\ UNCHANGED <<agentFileFrame, selected>>

\* TaskTool._arun: get_sub_agent_by_name(agent_name), loading on a cache miss
GetSubAgentByName(agent_name) ==
    /\ \E c \in {IF agents_cache.loaded THEN agents_cache
                 ELSE [loaded |-> TRUE, active |-> load_all_sub_agents(agent_files), files |-> agent_files]} :
          /\ agents_cache' = c
          /\ selected' = [agent_name |-> agent_name, agent_type |-> c.active[agent_name]]
    /\ UNCHANGED <<agentFileFrame, agent_files>>

AgentFilesNext ==
    \/ \E d \in AgentDirs, n \in AgentNames, content \in {"absent", "valid", "invalid"} : ChangeAgentFile(d, n, content)
    \/ \E agent_name \in AgentNames : GetSubAgentByName(agent_name)

SpecAgentFiles == AgentFilesInit /\ [][AgentFilesNext]_vars

\* the source that should define a name: project over user over built-in
highest_precedence(files, n) ==
    IF files["project"][n] = "valid" THEN "project"
    ELSE IF files["user"][n] = "valid" THEN "user"
    ELSE IF n = "general-purpose" THEN "built-in"
    ELSE "None"

\* C32: once loaded, the active set holds for every agent_name the
\* definition of the highest-precedence source that defines it, always holds
\* general-purpose, and a Task call finds an agent that a user or project
\* file defines.
C32_ActiveAgentsByPrecedence ==
    /\ agents_cache.loaded =>
          /\ \A n \in AgentNames : agents_cache.active[n] = highest_precedence(agents_cache.files, n)
          /\ agents_cache.active["general-purpose"] # "None"
    /\ (agents_cache.loaded /\ selected.agent_name # "None") =>
          selected.agent_type = highest_precedence(agents_cache.files, selected.agent_name)

(***************************************************************************)
(* The task slots of the main graph (re_act_agent.py): the router of       *)
(* check_permissions, the task_node_i nodes with their edges, the binding  *)
(* of task ids on a resume.  A turn is the list of its approved tool       *)
(* calls, each call standing for its position; the user's cancel is left   *)
(* out.  A child either returns or suspends for a permission.              *)
(***************************************************************************)
slotFrame == <<stateVars, _user_canceled, task_tool_user_canceled, user_input_queue, event_queue, nodeVars,
               permVars, ghostVars, threadVars, queueVars, taskVars, childVars, limitVars, busVars, freshVars,
               todoVars, agentFileVars, streamVars, compactVars, windowVars, getVars>>

SlotToolNames == {"TaskTool", "Other"}

\* the turns a model may emit: one call more than there are task nodes
SlotTurns == UNION {[1..n -> SlotToolNames] : n \in 0..(TaskNodes + 1)}

\* the id interrupts of the main agent carry
MainTaskId == [node_index |-> -1, uuid |-> 0]

Positions(calls, name_is_task) ==
    SelectSeq([p \in 1..Len(calls) |-> p], LAMBDA p : (calls[p] = "TaskTool") = name_is_task)

\* [tool_call for tool_call in state.tool_calls if name == "TaskTool"]
TaskPositions(calls) == Positions(calls, TRUE)

NonTaskPositions(calls) == Positions(calls, FALSE)

\* _should_execute_tools for a state with tool calls: task_node_i for the
\* i-th Task call, and execute when another call is there
should_execute_tools(calls) ==
    [task_nodes |-> {i \in 0..(Len(calls) - 1) : i < Len(TaskPositions(calls))},
     execute |-> NonTaskPositions(calls) # <<>>]

\* task_tool_calls[index]: the mutant always takes the first Task call
current_task_first(task_tool_calls, index) == task_tool_calls[1]

current_task(task_tool_calls, index) == task_tool_calls[index + 1]

\* rsplit("_", 1)[-1] == str(index): the mutant takes any id
node_index_matches_any(resume_task_id, index) == TRUE

node_index_matches(resume_task_id, index) == resume_task_id.node_index = index

\* workflow.add_edge(f"task_node_{i}", "reason") for i in range(10)
has_edge_to_reason(i) == i < TaskEdges

\* f"{agent_name}_{uuid.uuid4()}_{node_index}": the number stands for the
\* uuid, one that no task id of this index in use carries
uuid4(node_index) ==
    CHOOSE u \in 1..3 :
        \A id \in {slot_nodes[node_index].task_id} \cup resume_task_ids \cup resumed_tasks :
            id.node_index = node_index => id.uuid # u

Running(node) == node.phase \in {"child", "interrupted", "done"}

SlotsInit ==
    /\ AgentInit
    /\ ExtInit
    /\ session_cache = {}
    /\ config = AgentConfig
    /\ history = NoOp
    /\ pending = {}
    /\ granted = {}

\* Reason: the model answers with a turn; without tool calls the run ends
SlotsReason(calls) ==
    /\ slot_next = "reason"
    /\ reason_saw' = \A p \in 1..Len(slot_calls) : p \in slot_msgs
    /\ slot_calls' = calls
    /\ slot_msgs' = {}
    /\ slot_next' = IF calls = <<>> THEN "END" ELSE "check_permissions"
    /\ UNCHANGED <<slotFrame, slot_nodes, slot_exec, resume_task_ids, resumed_tasks, bound_since_resume,
                   double_bound>>

\* run_stream with a new input on the finished thread: no resume_task_ids
SlotsFreshRun ==
    /\ slot_next = "END"
    /\ slot_next' = "reason"
    /\ slot_calls' = <<>>
    /\ slot_msgs' = {}
    /\ slot_nodes' = [i \in TaskNodeIds |-> NoSlot]
    /\ slot_exec' = NoExec
    /\ resume_task_ids' = {}
    /\ UNCHANGED <<slotFrame, reason_saw, resumed_tasks, bound_since_resume, double_bound>>

\* check_permissions suspends for a permission of the main agent
SlotsAsk ==
    /\ slot_next = "check_permissions"
    /\ slot_next' = "suspended_check"
    /\ UNCHANGED <<slotFrame, slot_calls, slot_nodes, slot_exec, slot_msgs, reason_saw, resume_task_ids,
                   resumed_tasks, bound_since_resume, double_bound>>

\* run_stream with the status Interrupted: resumed_tasks is emptied and the
\* execution goes on with the task ids of the interrupts that were answered
SlotsResume ==
    /\ slot_next \in {"suspended_check", "suspended_step"}
    /\ resumed_tasks' = {}
    /\ bound_since_resume' = {}
    /\ IF slot_next = "suspended_check"
       THEN /\ resume_task_ids' = {MainTaskId}
            /\ slot_next' = "check_permissions"
            /\ UNCHANGED slot_nodes
       ELSE /\ resume_task_ids' = {slot_nodes[i].task_id : i \in {j \in TaskNodeIds : slot_nodes[j].phase = "interrupted"}}
            /\ slot_next' = "step"
            /\ slot_nodes' = [i \in TaskNodeIds |->
                                 IF slot_nodes[i].phase = "interrupted"
                                 THEN [NoSlot EXCEPT !.phase = "entry"] ELSE slot_nodes[i]]
    /\ UNCHANGED <<slotFrame, slot_calls, slot_exec, slot_msgs, reason_saw, double_bound>>

\* the conditional edges of check_permissions; a name outside the path map
\* ends the run with an error
SlotsRoute ==
    /\ slot_next = "check_permissions"
    /\ \E r \in {should_execute_tools(slot_calls)} :
          IF r.task_nodes \subseteq TaskNodeIds
          THEN /\ slot_nodes' = [i \in TaskNodeIds |->
                                    IF i \in r.task_nodes THEN [NoSlot EXCEPT !.phase = "entry"] ELSE NoSlot]
               /\ slot_exec' = IF r.execute THEN [NoExec EXCEPT !.phase = "entry"] ELSE NoExec
               /\ slot_next' = "step"
          ELSE /\ slot_next' = "error"
               /\ UNCHANGED <<slot_nodes, slot_exec>>
    /\ UNCHANGED <<slotFrame, slot_calls, slot_msgs, reason_saw, resume_task_ids, resumed_tasks,
                   bound_since_resume, double_bound>>

\* task_tool_node(index) up to task_tool.ainvoke: the call of its index, and
\* under the lock the first supplied id of its index that is not yet bound;
\* without one TaskTool._arun makes a fresh id
SlotTaskNode(i) ==
    /\ slot_next = "step"
    /\ slot_nodes[i].phase = "entry"
    /\ \E task_tool_calls \in {TaskPositions(slot_calls)} :
          IF task_tool_calls = <<>> \/ Len(task_tool_calls) < i
          THEN /\ slot_nodes' = [slot_nodes EXCEPT ![i].phase = "done"]
               /\ UNCHANGED <<slot_next, resumed_tasks, bound_since_resume, double_bound>>
          ELSE IF Len(task_tool_calls) = i
          THEN /\ slot_next' = "error"
               /\ UNCHANGED <<slot_nodes, resumed_tasks, bound_since_resume, double_bound>>
          ELSE \E candidates \in {{id \in resume_task_ids : node_index_matches(id, i) /\ id \notin resumed_tasks}} :
                  IF candidates # {}
                  THEN \E task_id \in candidates :
                          /\ slot_nodes' = [slot_nodes EXCEPT ![i] = [phase |-> "child",
                                                                      ran |-> current_task(task_tool_calls, i),
                                                                      task_id |-> task_id, reused |-> TRUE]]
                          /\ resumed_tasks' = resumed_tasks \cup {task_id}
                          /\ double_bound' = (double_bound \/ task_id \in bound_since_resume)
                          /\ bound_since_resume' = bound_since_resume \cup {task_id}
                          /\ UNCHANGED slot_next
                  ELSE /\ slot_nodes' = [slot_nodes EXCEPT ![i] = [phase |-> "child",
                                                                   ran |-> current_task(task_tool_calls, i),
                                                                   task_id |-> [node_index |-> i, uuid |-> uuid4(i)],
                                                                   reused |-> FALSE]]
                       /\ UNCHANGED <<slot_next, resumed_tasks, bound_since_resume, double_bound>>
    /\ UNCHANGED <<slotFrame, slot_calls, slot_exec, slot_msgs, reason_saw, resume_task_ids>>

\* the child suspends for a permission: GraphInterrupt passes through the node
SlotChildInterrupts(i) ==
    /\ slot_next = "step"
    /\ slot_nodes[i].phase = "child"
    /\ slot_nodes' = [slot_nodes EXCEPT ![i].phase = "interrupted"]
    /\ UNCHANGED <<slotFrame, slot_calls, slot_exec, slot_next, slot_msgs, reason_saw, resume_task_ids,
                   resumed_tasks, bound_since_resume, double_bound>>

\* TaskTool returns or fails: the node appends the Tool message of its call
SlotChildReturns(i) ==
    /\ slot_next = "step"
    /\ slot_nodes[i].phase = "child"
    /\ slot_nodes' = [slot_nodes EXCEPT ![i].phase = "done"]
    /\ slot_msgs' = slot_msgs \cup {slot_nodes[i].ran}
    /\ UNCHANGED <<slotFrame, slot_calls, slot_exec, slot_next, reason_saw, resume_task_ids, resumed_tasks, bound_since_resume, double_bound>>

\* _execute_tools_node: every call but the Task calls
SlotExecuteTools ==
    /\ slot_next = "step"
    /\ slot_exec.phase = "entry"
    /\ \E ran \in {SeqToSet(NonTaskPositions(slot_calls))} :
          /\ slot_exec' = [phase |-> "done", ran |-> ran]
          /\ slot_msgs' = slot_msgs \cup ran
    /\ UNCHANGED <<slotFrame, slot_calls, slot_nodes, slot_next, reason_saw, resume_task_ids, resumed_tasks, bound_since_resume, double_bound>>

StepSettled ==
    /\ slot_next = "step"
    /\ slot_exec.phase \in {"none", "done"}
    /\ \A i \in TaskNodeIds : slot_nodes[i].phase \in {"none", "done", "interrupted"}

\* the step ends with a node suspended: the execution is interrupted
SlotStepSuspends ==
    /\ StepSettled
    /\ \E i \in TaskNodeIds : slot_nodes[i].phase = "interrupted"
    /\ slot_next' = "suspended_step"
    /\ UNCHANGED <<slotFrame, slot_calls, slot_nodes, slot_exec, slot_msgs, reason_saw, resume_task_ids,
                   resumed_tasks, bound_since_resume, double_bound>>

\* the step ends: reason is next when a node that ran has an edge to it
SlotStepEnds ==
    /\ StepSettled
    /\ \A i \in TaskNodeIds : slot_nodes[i].phase # "interrupted"
    /\ slot_next' = IF slot_exec.phase = "done"
                       \/ \E i \in TaskNodeIds : slot_nodes[i].phase = "done" /\ has_edge_to_reason(i)
                    THEN "reason" ELSE "END"
    /\ slot_nodes' = [i \in TaskNodeIds |-> NoSlot]
    /\ slot_exec' = NoExec
    /\ UNCHANGED <<slotFrame, slot_calls, slot_msgs, reason_saw, resume_task_ids, resumed_tasks,
                   bound_since_resume, double_bound>>

SlotsNext ==
    \/ \E calls \in SlotTurns : SlotsReason(calls)
    \/ SlotsFreshRun
    \/ SlotsAsk
    \/ SlotsResume
    \/ SlotsRoute
    \/ \E i \in TaskNodeIds : SlotTaskNode(i)
    \/ \E i \in TaskNodeIds : SlotChildInterrupts(i)
    \/ \E i \in TaskNodeIds : SlotChildReturns(i)
    \/ SlotExecuteTools
    \/ SlotStepSuspends
    \/ SlotStepEnds

SpecSlots == SlotsInit /\ [][SlotsNext]_vars

\* C33: in a step for a turn with k Task calls, k not above the number of
\* task nodes, exactly the slots 0..k-1 are active, slot i runs the i-th Task
\* call of the turn and nothing else, and execute_tools runs no Task call.
C33_SlotAssignment ==
    slot_next \in {"step", "suspended_step"} =>
        LET task_tool_calls == TaskPositions(slot_calls)
        IN /\ {i \in TaskNodeIds : slot_nodes[i].phase # "none"} = 0..(Len(task_tool_calls) - 1)
           /\ \A i \in TaskNodeIds : Running(slot_nodes[i]) => slot_nodes[i].ran = task_tool_calls[i + 1]
           /\ \A i, j \in TaskNodeIds :
                 (i # j /\ Running(slot_nodes[i]) /\ Running(slot_nodes[j])) => slot_nodes[i].ran # slot_nodes[j].ran
           /\ \A p \in slot_exec.ran : slot_calls[p] # "TaskTool"

\* every task node has run its own call of a turn that also has another call
C33_Witness ==
    /\ slot_next = "step"
    /\ Len(slot_calls) = TaskNodes + 1
    /\ slot_calls[1] = "Other"
    /\ \A i \in TaskNodeIds : slot_nodes[i].phase = "done" /\ slot_nodes[i].ran = i + 2
    /\ slot_exec = [phase |-> "done", ran |-> {1}]

\* C34: every task node that completes has an edge back to reason; a turn's
\* step is followed by Reason, never by the end of the run, and that Reason
\* step finds a Tool message for each call of the turn.
C34_SlotsReturnToReason ==
    /\ \A i \in TaskNodeIds : slot_nodes[i].phase = "done" => has_edge_to_reason(i)
    /\ slot_next = "END" => slot_calls = <<>>
    /\ reason_saw

\* C35: a slot execution that re-uses a task id takes a supplied id whose
\* suffix is its own index and that no slot execution of this resume has
\* bound; a slot execution with no such supplied id left starts with an id
\* that was not supplied; no supplied id is ever bound twice in one resume.
C35_ResumeBinding ==
    /\ []~double_bound
    /\ [][\A i \in TaskNodeIds :
             (slot_nodes[i].phase = "entry" /\ slot_nodes'[i].phase = "child") =>
                 IF slot_nodes'[i].reused
                 THEN /\ slot_nodes'[i].task_id \in resume_task_ids
                      /\ slot_nodes'[i].task_id.node_index = i
                      /\ slot_nodes'[i].task_id \notin bound_since_resume
                 ELSE /\ slot_nodes'[i].task_id \notin resume_task_ids
                      /\ \A id \in resume_task_ids : id.node_index = i => id \in bound_since_resume]_vars

\* two slots were resumed together and each took the id of its own index
C35_Witness ==
    /\ Cardinality(resume_task_ids) = 2
    /\ slot_nodes[0].phase = "child" /\ slot_nodes[0].reused
    /\ slot_nodes[1].phase = "child" /\ slot_nodes[1].reused
    /\ slot_nodes[0].task_id # slot_nodes[1].task_id

(***************************************************************************)
(* One run of a sub-agent as TaskTool._arun sees it: run_stream of the     *)
(* child's agent turns the chunks of the child's graph into events, and    *)
(* _arun keeps the message of the last_ai_message event it saw last.       *)
(***************************************************************************)
streamFrame == <<stateVars, _user_canceled, task_tool_user_canceled, user_input_queue, event_queue, nodeVars,
                 permVars, ghostVars, threadVars, queueVars, taskVars, childVars, limitVars, busVars, freshVars,
                 todoVars, agentFileVars, slotVars, compactVars, windowVars, getVars>>

Event(type, message) == [type |-> type, message |-> message]

\* the events of one streamed model answer ("messages" chunks): a start when
\* the first chunk carries neither content nor tool calls, the deltas, the end
token_events(with_start, deltas) ==
    (IF with_start THEN <<Event("message_start", 0)>> ELSE <<>>)
        \o [k \in 1..deltas |-> Event("message_delta", 0)]
        \o <<Event("message_end", 0)>>

\* the "updates" chunk of node reason: an event when data["messages"] is an
\* AIMessage or a list, none when it is the replacing dict of a compaction
reason_update_events(compacted, n) ==
    IF compacted THEN <<>> ELSE <<Event("last_ai_message", n)>>

count_events(events, type) == Cardinality({k \in 1..Len(events) : events[k].type = type})

StreamInit ==
    /\ AgentInit
    /\ ExtInit
    /\ session_cache = {}
    /\ config = AgentConfig
    /\ history = NoOp
    /\ pending = {}
    /\ granted = {}

\* TaskTool._arun starts sub_agent.run_stream(message, task_id)
SubRunStream ==
    /\ sub_next = "idle"
    /\ sub_next' = "reason"
    /\ sub_turns' = 0
    /\ sub_events' = <<>>
    /\ sub_last_message' = 0
    /\ sub_result' = NoResult
    /\ UNCHANGED streamFrame

\* the child's Reason node calls the model and the answer is streamed
SubModelStreams(with_start, deltas) ==
    /\ sub_next = "reason"
    /\ sub_next' = "reason_update"
    /\ sub_events' = sub_events \o token_events(with_start, deltas)
    /\ UNCHANGED <<streamFrame, sub_turns, sub_last_message, sub_result>>

\* the child's Reason node returns its update; _arun takes the message of a
\* last_ai_message event; with tool calls the child goes on
SubReasonUpdate(has_tool_calls, compacted) ==
    /\ sub_next = "reason_update"
    /\ has_tool_calls => sub_turns + 1 < MaxChildTurns
    /\ sub_turns' = sub_turns + 1
    /\ sub_events' = sub_events \o reason_update_events(compacted, sub_turns + 1)
    /\ sub_last_message' = IF compacted THEN sub_last_message ELSE sub_turns + 1
    /\ sub_next' = IF has_tool_calls THEN "execute_tools" ELSE "END"
    /\ UNCHANGED <<streamFrame, sub_result>>

\* the child runs its tools: their custom events pass through
SubExecuteTools ==
    /\ sub_next = "execute_tools"
    /\ sub_events' = sub_events \o <<Event("tool_start", 0), Event("tool_end", 0)>>
    /\ sub_next' = "reason"
    /\ UNCHANGED <<streamFrame, sub_turns, sub_last_message, sub_result>>

\* the stream has ended: _arun returns the content of sub_last_message
SubArunReturns ==
    /\ sub_next = "END"
    /\ sub_result' = IF sub_last_message # 0 THEN [status |-> "success", turn |-> sub_last_message]
                     ELSE [status |-> "error", turn |-> 0]
    /\ sub_next' = "idle"
    /\ UNCHANGED <<streamFrame, sub_turns, sub_events, sub_last_message>>

StreamNext ==
    \/ SubRunStream
    \/ \E with_start \in BOOLEAN, deltas \in 0..1 : SubModelStreams(with_start, deltas)
    \/ \E has_tool_calls, compacted \in BOOLEAN : SubReasonUpdate(has_tool_calls, compacted)
    \/ SubExecuteTools
    \/ SubArunReturns

SpecStream == StreamInit /\ [][StreamNext]_vars

\* C36: in one sub-agent run the runner yields at most one last_ai_message
\* event, however many Reason steps the child takes.
C36_LastAiMessageOnce == count_events(sub_events, "last_ai_message") <= 1

(***************************************************************************)
(* Compaction in the Reason node (utils/message.py, _reason_node, the      *)
(* reducer of state.messages).  A message is its type, its content and the *)
(* total_tokens of its usage (0: no usage).  The node reads the cancel     *)
(* flag once, after compaction and the pop of the queue, so the step is    *)
(* one action and the flag may be set before it.                           *)
(***************************************************************************)
compactFrame == <<tool_calls, current_iteration, resume_values, task_tool_user_canceled, event_queue, nodeVars,
                  permVars, ghostVars, threadVars, queueVars, taskVars, childVars, limitVars, busVars, freshVars,
                  todoVars, agentFileVars, slotVars, streamVars, windowVars, getVars>>

Msg(type, content, total_tokens) == [type |-> type, content |-> content, total_tokens |-> total_tokens]

\* the usage a model answer may report: none, just below and at the threshold
TokenCounts == {0, 117759, 117760}

\* HumanMessage(content="Context automatically compressed due to token limit...")
CompactMarker == Msg("human", "Context automatically compressed", 0)

\* the total_tokens of the last assistant message that has usage, else 0
count_tokens(msgs) ==
    LET with_usage == {k \in 1..Len(msgs) : msgs[k].type = "ai" /\ msgs[k].total_tokens # 0}
    IN  IF with_usage = {} THEN 0
        ELSE msgs[CHOOSE k \in with_usage : \A j \in with_usage : j <= k].total_tokens

should_compact(msgs) == count_tokens(msgs) * 100 >= max_context_tokens * AUTO_COMPACT_THRESHOLD_RATIO

\* check_auto_compact: the marker and the summary the model wrote, or the
\* messages as they are
check_auto_compact(msgs, summary) ==
    IF should_compact(msgs) THEN [messages |-> <<CompactMarker, summary>>, compacted |-> TRUE]
    ELSE [messages |-> msgs, compacted |-> FALSE]

\* langgraph's add_messages for messages with new ids
add_messages(left, right) == left \o right

\* the reducer that only ever appends
add_or_replace_messages_appends(left, right) == add_messages(left, right.messages)

\* add_or_replace_messages: a dict with "messages" and "_replace" replaces
add_or_replace_messages(left, right) ==
    IF right._replace THEN right.messages ELSE add_messages(left, right.messages)

human_messages(user_inputs) == [k \in 1..Len(user_inputs) |-> Msg("human", user_inputs[k], 0)]

CompactInit ==
    /\ AgentInit
    /\ ExtInit
    /\ session_cache = {}
    /\ config = AgentConfig
    /\ history = NoOp
    /\ pending = {}
    /\ granted = {}

\* run_stream on a thread that is not running: the input is appended and the
\* cancel flag is cleared
CompactRunStream ==
    /\ pc = "END"
    /\ Len(messages) < MaxLog
    /\ messages' = add_messages(messages, <<Msg("human", "text", 0)>>)
    /\ _user_canceled' = FALSE
    /\ user_canceled' = FALSE
    /\ pc' = "reason"
    /\ last_reason' = NoReason
    /\ UNCHANGED <<compactFrame, user_input_queue>>

\* run_stream while the thread is running: the cancel flag is cleared and the
\* input is queued
CompactUserInput ==
    /\ pc # "END"
    /\ Len(user_input_queue) < MaxQueue
    /\ _user_canceled' = FALSE
    /\ user_input_queue' = Append(user_input_queue, "more")
    /\ last_reason' = NoReason
    /\ UNCHANGED <<compactFrame, messages, user_canceled, pc>>

\* _process_user_cancel
CompactUserCancel ==
    /\ pc # "END"
    /\ ~_user_canceled
    /\ _user_canceled' = TRUE
    /\ last_reason' = NoReason
    /\ UNCHANGED <<compactFrame, messages, user_input_queue, user_canceled, pc>>

\* _reason_node
CompactReason(summary_tokens, answer_tokens, has_calls) ==
    /\ pc = "reason"
    /\ \E r \in {check_auto_compact(messages, Msg("ai", "summary", summary_tokens))},
          ai_message \in {Msg("ai", IF has_calls THEN "calls" ELSE "answer", answer_tokens)} :
          /\ ~r.compacted => (summary_tokens = 0 /\ (~_user_canceled => Len(messages) < MaxLog))
          /\ _user_canceled => (answer_tokens = 0 /\ ~has_calls)
          /\ user_input_queue' = <<>>
          /\ IF _user_canceled
             THEN /\ user_canceled' = TRUE
                  /\ pc' = "END"
                  /\ UNCHANGED messages
             ELSE /\ messages' = add_or_replace_messages(
                                     messages,
                                     IF r.compacted
                                     THEN [_replace |-> TRUE,
                                           messages |-> r.messages \o human_messages(user_input_queue) \o <<ai_message>>]
                                     ELSE [_replace |-> FALSE, messages |-> <<ai_message>>])
                  /\ pc' = IF has_calls THEN "tools" ELSE "END"
                  /\ UNCHANGED user_canceled
          /\ last_reason' = [ran |-> TRUE, compacted |-> r.compacted, canceled |-> _user_canceled,
                             before |-> messages,
                             summary |-> IF r.compacted THEN r.messages[2] ELSE NoMsg,
                             inputs |-> user_input_queue,
                             ai |-> IF _user_canceled THEN NoMsg ELSE ai_message]
    /\ UNCHANGED <<compactFrame, _user_canceled>>

\* the tool nodes append the Tool message of the turn
CompactTools ==
    /\ pc = "tools"
    /\ Len(messages) < MaxLog
    /\ messages' = add_messages(messages, <<Msg("tool", "result", 0)>>)
    /\ pc' = "reason"
    /\ last_reason' = NoReason
    /\ UNCHANGED <<compactFrame, user_input_queue, _user_canceled, user_canceled>>

CompactNext ==
    \/ CompactRunStream
    \/ CompactUserInput
    \/ CompactUserCancel
    \/ \E summary_tokens, answer_tokens \in TokenCounts, has_calls \in BOOLEAN :
          CompactReason(summary_tokens, answer_tokens, has_calls)
    \/ CompactTools

SpecCompact == CompactInit /\ [][CompactNext]_vars

\* the log the claim describes for a Reason step that compacted
compacted_log(r) == <<CompactMarker, r.summary>> \o human_messages(r.inputs) \o <<r.ai>>

DeliveredValues == {"1", "2", "3", "", "1 ", "yes", "allow"}

\* user_choice = interrupt(interrupt_info) has returned for a request that
\* was answered ASK: the mapping, then apply_user_choice
ChoiceDelivered(name, user_choice) ==
    LET choice == MapUserChoice(user_choice)
        r == apply_user_choice(session_cache, Inv(name), choice)
    IN  /\ name \in pending
        /\ session_cache' = r.cache
        /\ history' = [op |-> "deliver", inv |-> name, choice |-> choice, result |-> r.allowed,
                       value |-> user_choice]
        /\ pending' = pending \ {name}
        /\ granted' = IF r.cache # session_cache THEN granted \cup {KeyOf(name)} ELSE granted
        /\ UNCHANGED <<config, agentVars, extVars>>

ChoiceNext ==
    \/ \E name \in InvNames : PermCheck(name)
    \/ \E name \in InvNames, user_choice \in DeliveredValues : ChoiceDelivered(name, user_choice)
    \/ PermClear

SpecChoice == PermInit /\ [][ChoiceNext]_vars

\* C38: "1" is mapped to allow once and "2" to allow for the session; every
\* other delivered value is mapped to DENY, the call is not allowed and the
\* session cache is left as it was.
C38_FailClosed ==
    /\ [](history.op = "deliver" =>
             /\ history.value = "1" => (history.choice = ALLOW_ONCE /\ history.result)
             /\ history.value = "2" => (history.choice = ALLOW_SESSION /\ history.result)
             /\ history.value \notin {"1", "2"} => (history.choice = DENY /\ ~history.result))
    /\ [][(history'.op = "deliver" /\ history' # history /\ history'.value \notin {"1", "2"})
              => session_cache' = session_cache]_vars

\* a free-text answer was delivered for a request and the call was refused
C38_Witness ==
    /\ history.op = "deliver"
    /\ history.value = "allow"
    /\ ~history.result
    /\ history.inv \notin pending

(***************************************************************************)
(* The permission choice window (components/choice_window.py).  The queue  *)
(* is unbounded, so its put never suspends: append_interruption, and       *)
(* _handle_choice_input up to the call of process_stream_input, each run   *)
(* without yielding to the event loop and are one action each.             *)
(***************************************************************************)
windowFrame == <<stateVars, _user_canceled, task_tool_user_canceled, user_input_queue, event_queue, nodeVars,
                 permVars, ghostVars, threadVars, queueVars, taskVars, childVars, limitVars, busVars, freshVars,
                 todoVars, agentFileVars, slotVars, streamVars, compactVars, getVars>>

WindowKeys == {"k1", "k2"}

WindowTaskIds == {"main", "task_0"}

\* what a key press hands to _handle_choice_input: the keys 1, 2, 3, or Enter
\* on a fourth option
KeyChoices == {"1", "2", "3", "4"}

\* d[k] = v on a dict
DictPut(d, k, v) == [x \in DOMAIN d \cup {k} |-> IF x = k THEN v ELSE d[x]]

\* d[t["_interrupt_id_"]] = v for every t of a list
DictPutAll(d, tasks, v) ==
    LET ids == {tasks[k].id : k \in 1..Len(tasks)}
    IN  [x \in DOMAIN d \cup ids |-> IF x \in ids THEN v ELSE d[x]]

TaskIdsOf(tasks) == {tasks[k].task_id : k \in 1..Len(tasks)}

\* a cascade that takes every queued interrupt
same_permission_key_always(next_task, permission_key) == TRUE

\* next_task.get("permission_key") == permission_key
same_permission_key(next_task, permission_key) == next_task.permission_key = permission_key

\* _handle_choice_input for a choice in 1..3 and an interrupt on display: the
\* window it leaves and whether it goes on to the recovery
handle_choice(choice, task, queue, result, task_ids) ==
    LET result1 == DictPut(result, task.id, choice)
        task_ids1 == task_ids \cup {task.task_id}
        Same(t) == same_permission_key(t, task.permission_key)
        Other(t) == ~Same(t)
        auto == IF choice = "3" THEN queue ELSE IF choice = "2" THEN SelectSeq(queue, Same) ELSE <<>>
        remaining_tasks == IF choice = "2" THEN SelectSeq(queue, Other) ELSE <<>>
        left == IF choice = "3" THEN <<>> ELSE IF choice = "2" THEN remaining_tasks ELSE queue
    IN  [choice_result |-> DictPutAll(result1, auto, choice),
         resume_task_ids |-> task_ids1 \cup TaskIdsOf(auto),
         current_task |-> IF left = <<>> THEN NoInterrupt ELSE Head(left),
         interruptions |-> IF left = <<>> THEN <<>> ELSE Tail(left),
         puts |-> Len(remaining_tasks)]

WindowInit ==
    /\ AgentInit
    /\ ExtInit
    /\ session_cache = {}
    /\ config = AgentConfig
    /\ history = NoOp
    /\ pending = {}
    /\ granted = {}

\* append_interruption(interrupt_info)
AppendInterruption(permission_key, task_id) ==
    /\ Len(appended) < MaxInterrupts
    /\ \E interrupt_info \in {[id |-> Len(appended) + 1, permission_key |-> permission_key, task_id |-> task_id]} :
          /\ appended' = Append(appended, interrupt_info)
          /\ since_resume' = since_resume \cup {interrupt_info.id}
          /\ unfinished_tasks' = unfinished_tasks + 1
          /\ IF window_task = NoInterrupt
             THEN /\ window_task' = Head(Append(interruptions, interrupt_info))
                  /\ interruptions' = Tail(Append(interruptions, interrupt_info))
             ELSE /\ interruptions' = Append(interruptions, interrupt_info)
                  /\ UNCHANGED window_task
    /\ last_key' = ""
    /\ UNCHANGED <<windowFrame, choice_result, window_task_ids, resumes>>

\* _handle_choice_input(choice), with _handle_interruption_recovery when no
\* interrupt is left; task_done() raises when nothing is unfinished, and the
\* read of current_task raises when none is on display
HandleChoiceInput(choice) ==
    /\ last_key' = choice
    /\ IF choice \notin {"1", "2", "3"} \/ unfinished_tasks = 0
       THEN UNCHANGED <<interruptions, unfinished_tasks, window_task, choice_result, window_task_ids, resumes,
                        since_resume>>
       ELSE IF window_task = NoInterrupt
       THEN /\ unfinished_tasks' = unfinished_tasks - 1
            /\ UNCHANGED <<interruptions, window_task, choice_result, window_task_ids, resumes, since_resume>>
       ELSE \E r \in {handle_choice(choice, window_task, interruptions, choice_result, window_task_ids)} :
               /\ unfinished_tasks' = unfinished_tasks - 1 + r.puts
               /\ window_task' = r.current_task
               /\ interruptions' = r.interruptions
               /\ IF r.current_task = NoInterrupt
                  THEN /\ resumes' = Append(resumes, [resume |-> r.choice_result, task_ids |-> r.resume_task_ids])
                       /\ choice_result' = <<>>
                       /\ window_task_ids' = {}
                       /\ since_resume' = {}
                  ELSE /\ choice_result' = r.choice_result
                       /\ window_task_ids' = r.resume_task_ids
                       /\ UNCHANGED <<resumes, since_resume>>
    /\ UNCHANGED <<windowFrame, appended>>

WindowNext ==
    \/ \E permission_key \in WindowKeys, task_id \in WindowTaskIds : AppendInterruption(permission_key, task_id)
    \/ \E choice \in KeyChoices : HandleChoiceInput(choice)

SpecWindow == WindowInit /\ [][WindowNext]_vars

\* the interrupts that wait for a choice, the one on display first
WaitingInterrupts(task, queue) == IF task = NoInterrupt THEN queue ELSE <<task>> \o queue

\* C39: a resume is sent only when no interrupt waits, and carries one choice
\* for each interrupt appended since the resume before it and for no other;
\* a handled key gives its choice to the interrupt on display; "3" gives "3"
\* to every queued interrupt; "2" gives "2" to the queued interrupts of the
\* same permission_key and leaves the others waiting in their order; "1"
\* leaves the queue as it is; no interrupt is answered by two resumes.
C39_ChoiceQueue ==
    /\ [](\A i, j \in 1..Len(resumes) : i # j => DOMAIN resumes[i].resume \cap DOMAIN resumes[j].resume = {})
    /\ [][LET sent == Len(resumes') > Len(resumes)
              assigned == IF sent THEN resumes'[Len(resumes')].resume ELSE choice_result'
              waiting == WaitingInterrupts(window_task', interruptions')
              handled == window_task # NoInterrupt /\ (sent \/ choice_result' # choice_result)
          IN  /\ sent => /\ waiting = <<>>
                         /\ DOMAIN assigned = since_resume
                         /\ \A id \in DOMAIN assigned : assigned[id] \in {"1", "2", "3"}
                         /\ resumes'[Len(resumes')].task_ids
                                = {appended[id].task_id : id \in since_resume}
              /\ handled =>
                    /\ assigned[window_task.id] = last_key'
                    /\ \A k \in 1..Len(waiting) : waiting[k].id \notin DOMAIN assigned
                    /\ last_key' = "3" => \A k \in 1..Len(interruptions) : assigned[interruptions[k].id] = "3"
                    /\ last_key' = "2" =>
                          /\ waiting = SelectSeq(interruptions, LAMBDA t : t.permission_key # window_task.permission_key)
                          /\ \A k \in 1..Len(interruptions) :
                                interruptions[k].permission_key = window_task.permission_key
                                    => assigned[interruptions[k].id] = "2"
                    /\ last_key' = "1" => waiting = interruptions]_vars

\* one resume answered three interrupts: "2" typed for the first, "2" given
\* by the cascade to the third, "1" typed for the second, of another key
C39_Witness ==
    /\ Len(resumes) = 1
    /\ resumes[1].resume = (1 :> "2" @@ 2 :> "1" @@ 3 :> "2")
    /\ window_task = NoInterrupt

(***************************************************************************)
(* safe_get of the input queue beside safe_put: both run under the queue's *)
(* one asyncio.Lock, and asyncio.Queue.get() waits while the queue is      *)
(* empty.  The lock wakes its waiters in their order, the event loop runs  *)
(* every coroutine that can go on.                                         *)
(***************************************************************************)
getFrame == <<stateVars, _user_canceled, task_tool_user_canceled, event_queue, nodeVars, permVars, ghostVars,
              threadVars, taskVars, childVars, limitVars, busVars, freshVars, todoVars, agentFileVars, slotVars,
              streamVars, compactVars, windowVars>>

\* a coroutine calls safe_get()
GetCall ==
    /\ getter.at = "idle"
    /\ Len(getter.returned) < MaxItems
    /\ getter' = [getter EXCEPT !.at = "wait"]
    /\ UNCHANGED <<getFrame, user_input_queue, lock, callers>>

\* safe_get: async with self._lock
GetAcquire ==
    /\ getter.at = "wait"
    /\ ~Locked(lock)
    /\ lock' = "safe_get"
    /\ getter' = [getter EXCEPT !.at = "in"]
    /\ UNCHANGED <<getFrame, user_input_queue, callers>>

\* safe_get: item = await super().get() goes on once the queue has an item
GetTake ==
    /\ getter.at = "in"
    /\ user_input_queue # <<>>
    /\ user_input_queue' = Tail(user_input_queue)
    /\ getter' = [at |-> "exit", returned |-> Append(getter.returned, Head(user_input_queue))]
    /\ UNCHANGED <<getFrame, lock, callers>>

\* safe_get: the lock is released and the item returned
GetRelease ==
    /\ getter.at = "exit"
    /\ lock' = "free"
    /\ getter' = [getter EXCEPT !.at = "idle"]
    /\ UNCHANGED <<getFrame, user_input_queue, callers>>

PutStep ==
    \/ \E c \in Putters : QueueCall(c, 0) /\ UNCHANGED getter
    \/ \E c \in Putters : Acquire(c) /\ UNCHANGED getter
    \/ \E c \in Putters : SafePut(c) /\ UNCHANGED getter
    \/ \E c \in Putters : Release(c) /\ UNCHANGED getter

GetNext ==
    \/ PutStep
    \/ GetCall
    \/ GetAcquire
    \/ GetTake
    \/ GetRelease

SpecGet == QueueInit /\ [][GetNext]_vars

FairSpecGet ==
    /\ SpecGet
    /\ \A c \in Putters : SF_vars(Acquire(c)) /\ WF_vars(SafePut(c)) /\ WF_vars(Release(c))
    /\ SF_vars(GetAcquire)
    /\ WF_vars(GetTake)
    /\ WF_vars(GetRelease)

\* safe_get waits inside the lock on the empty queue while a safe_put has
\* been called
GetWaitsOnEmpty ==
    /\ getter.at = "in"
    /\ user_input_queue = <<>>
    /\ \E c \in Putters : callers[c].at = "wait"

\* C40: when safe_get waits on the empty queue and a safe_put has been
\* called, the put completes and the waiting safe_get returns an item.
C40_SafeGetDoesNotBlock == GetWaitsOnEmpty ~> (getter.at = "exit")

=============================================================================
